---- MODULE Spec2Model ----
(***************************************************************************)
(* ZenMill template compiler: the compile pipeline of src/job.js           *)
(* (Job, processFile, processNodes, processNode and the node handlers)     *)
(* driven by createCompiler (src/compiler.js), on top of the promise       *)
(* machinery the code is written against.                                  *)
(*                                                                         *)
(* JavaScript strings that the code inspects character by character        *)
(* (template paths) are sequences of one-character strings.  Generated     *)
(* code is a sequence of tokens.  Every promise of a compile lives in      *)
(* `promises`; the jobs of the microtask queue run in FIFO order, and a    *)
(* pending loader call may settle at any moment.                           *)
(***************************************************************************)
EXTENDS Integers, Sequences, FiniteSets, TLC

\* number of times compile() is called on the compiler
MaxCompiles == 2

\* the number of times the renderer of one compile is called
MaxRenders == 2

\* the longest path given to localPath on its own, and the longest name of
\* the file it is relative to
MaxPathLen == 4
MaxParentLen == 3
MaxHtmlLen == 4
MaxJobCompiles == 2
MaxContexts == 5

----------------------------------------------------------------------------
(* path-browserify, as bundled in browser/zenmill.js *)

Slash == "/"
Dot == <<".">>
DotDot == <<".", ".">>

\* String.prototype.split('/')
RECURSIVE SplitFrom(_, _, _)
SplitFrom(str, i, cur) ==
    IF i > Len(str) THEN <<cur>>
    ELSE IF str[i] = Slash THEN <<cur>> \o SplitFrom(str, i + 1, <<>>)
    ELSE SplitFrom(str, i + 1, Append(cur, str[i]))

Split(str) == SplitFrom(str, 1, <<>>)

\* filter(xs, function(p) { return !!p; })
FilterNonEmpty(parts) == SelectSeq(parts, LAMBDA p : p # <<>>)

\* Array.prototype.join('/')
RECURSIVE JoinSlash(_)
JoinSlash(parts) ==
    IF parts = <<>> THEN <<>>
    ELSE IF Len(parts) = 1 THEN parts[1]
    ELSE parts[1] \o <<Slash>> \o JoinSlash(Tail(parts))

\* the backwards loop of normalizeArray: the parts that survive and `up`
RECURSIVE NormalizeLoop(_, _)
NormalizeLoop(parts, up) ==
    IF parts = <<>> THEN [parts |-> <<>>, up |-> up]
    ELSE LET last == parts[Len(parts)]
             init == SubSeq(parts, 1, Len(parts) - 1)
         IN  IF last = Dot THEN NormalizeLoop(init, up)
             ELSE IF last = DotDot THEN NormalizeLoop(init, up + 1)
             ELSE IF up > 0 THEN NormalizeLoop(init, up - 1)
             ELSE LET r == NormalizeLoop(init, 0)
                  IN  [parts |-> Append(r.parts, last), up |-> r.up]

normalizeArray(parts, allowAboveRoot) ==
    LET r == NormalizeLoop(parts, 0)
    IN  IF allowAboveRoot
        THEN [i \in 1..r.up |-> DotDot] \o r.parts
        ELSE r.parts

isAbsolute(path) == Len(path) > 0 /\ path[1] = Slash

normalize(path) ==
    LET abs == isAbsolute(path)
        trailingSlash == Len(path) > 0 /\ path[Len(path)] = Slash
        p1 == JoinSlash(normalizeArray(FilterNonEmpty(Split(path)), ~abs))
        p2 == IF p1 = <<>> /\ ~abs THEN Dot ELSE p1
        p3 == IF p2 # <<>> /\ trailingSlash THEN Append(p2, Slash) ELSE p2
    IN  (IF abs THEN <<Slash>> ELSE <<>>) \o p3

\* path.join(a, b): the non-empty arguments joined by '/', then normalized
join(a, b) ==
    normalize(JoinSlash(SelectSeq(<<a, b>>, LAMBDA p : p # <<>>)))

\* the path without the slashes that end it (the tail group of splitPathRe)
RECURSIVE StripTrailingSlashes(_)
StripTrailingSlashes(path) ==
    IF path # <<>> /\ path[Len(path)] = Slash
    THEN StripTrailingSlashes(SubSeq(path, 1, Len(path) - 1))
    ELSE path

\* index of the last '/' of str, 0 when it has none
RECURSIVE LastSlash(_)
LastSlash(str) ==
    IF str = <<>> THEN 0
    ELSE IF str[Len(str)] = Slash THEN Len(str)
    ELSE LastSlash(SubSeq(str, 1, Len(str) - 1))

\* splitPath(filename): [root, dir] of splitPathRe
splitPath(filename) ==
    LET root == IF isAbsolute(filename) THEN <<Slash>> ELSE <<>>
        rest == IF isAbsolute(filename) THEN Tail(filename) ELSE filename
        body == StripTrailingSlashes(rest)
        cut  == LastSlash(body)
    IN  [root |-> root, dir |-> SubSeq(body, 1, cut)]

dirname(path) ==
    LET result == splitPath(path)
    IN  IF result.root = <<>> /\ result.dir = <<>> THEN Dot
        ELSE result.root \o
             (IF result.dir # <<>>
              THEN SubSeq(result.dir, 1, Len(result.dir) - 1)
              ELSE <<>>)

\* String.prototype.replace(/^\/+/, '')
RECURSIVE StripLeadingSlashes(_)
StripLeadingSlashes(str) ==
    IF str # <<>> /\ str[1] = Slash THEN StripLeadingSlashes(Tail(str)) ELSE str

\* file.indexOf(prefix) === 0
StartsWith(str, prefix) ==
    Len(str) >= Len(prefix) /\ SubSeq(str, 1, Len(prefix)) = prefix

\* localPath that leaves the slashes a rooted path begins with
localPathRooted(relativeTo, file) ==
    IF StartsWith(file, <<Slash>>)
    THEN normalize(file)
    ELSE normalize(join(dirname(relativeTo), file))

localPath(relativeTo, file) ==
    IF StartsWith(file, <<Slash>>)
    THEN StripLeadingSlashes(normalize(file))
    ELSE normalize(join(dirname(relativeTo), file))

----------------------------------------------------------------------------
(* Parsed templates: the nodes grammar.parse returns *)

\* names of blocks used by the templates
BlockNames == {"b", "c"}

\* the tags of a definition: <def:NAME>, <append:NAME>, <prepend:NAME>
Modes == {"def", "append", "prepend"}

NoNode ==
    [type |-> "", name |-> "", mode |-> "", file |-> <<>>, text |-> "",
     escape |-> FALSE, buffer |-> FALSE, nodes |-> <<>>]

\* a plain run of text: a JavaScript string in the node list
Str(text) == [NoNode EXCEPT !.type = "string", !.text = text]
Comment(content) == [NoNode EXCEPT !.type = "comment", !.text = content]
Include(file, nodes) ==
    [NoNode EXCEPT !.type = "include", !.file = file, !.nodes = nodes]
Inline(file) == [NoNode EXCEPT !.type = "inline", !.file = file]
Def(mode, name, nodes) ==
    [NoNode EXCEPT !.type = "def", !.mode = mode, !.name = name,
                   !.nodes = nodes]
Block(name, nodes) ==
    [NoNode EXCEPT !.type = "block", !.name = name, !.nodes = nodes]
\* #{expr} (escape) and !{expr}: both are written to the output
Expr(expr, escape) ==
    [NoNode EXCEPT !.type = "expr", !.text = expr, !.escape = escape,
                   !.buffer = TRUE]
Var(name, expr) == [NoNode EXCEPT !.type = "var", !.name = name, !.text = expr]
\* <when expr=...>, <otherwise> and <if>: node.when and node.otherwise are
\* kept as the children of the If, the Otherwise (if any) last
When(expr, nodes) == [NoNode EXCEPT !.type = "when", !.text = expr,
                                    !.nodes = nodes]
Otherwise(nodes) == [NoNode EXCEPT !.type = "otherwise", !.nodes = nodes]
If(when, otherwise) ==
    [NoNode EXCEPT !.type = "if", !.nodes = when \o otherwise]
\* <each:name in=expr>
Each(name, expr, nodes) ==
    [NoNode EXCEPT !.type = "each", !.name = name, !.text = expr,
                   !.nodes = nodes]

\* the node at the position addr (child indices from the top of the list)
RECURSIVE NodeAt(_, _)
NodeAt(nodes, addr) ==
    IF Len(addr) = 1 THEN nodes[addr[1]]
    ELSE NodeAt(nodes[addr[1]].nodes, Tail(addr))

\* the list a position denotes: the whole list, or the node's children
ChildrenAt(nodes, addr) ==
    IF addr = <<>> THEN nodes ELSE NodeAt(nodes, addr).nodes

\* node.file = file, for the node at addr
RECURSIVE SetFile(_, _, _)
SetFile(nodes, addr, file) ==
    [nodes EXCEPT ![addr[1]] =
        IF Len(addr) = 1 THEN [@ EXCEPT !.file = file]
        ELSE [@ EXCEPT !.nodes = SetFile(@, Tail(addr), file)]]

\* What a loader call yields: the text of a file.  The text is opaque here;
\* what the parser makes of it comes with it (valid: the text parses).
NoContent == [text |-> "", valid |-> FALSE, nodes |-> <<>>]
Template(text, nodes) == [text |-> text, valid |-> TRUE, nodes |-> nodes]
\* a text without tags: it parses to one plain run
Raw(text) == Template(text, <<Str(text)>>)
\* a text the grammar rejects
Broken(text) == [text |-> text, valid |-> FALSE, nodes |-> <<>>]

----------------------------------------------------------------------------
(* Generated code: a sequence of tokens *)

Tok(t, v, n) == [t |-> t, v |-> v, n |-> n]

Semi == Tok(";", <<>>, 0)

\* Array.prototype.join(';') over code strings
RECURSIVE JoinCode(_)
JoinCode(codes) ==
    IF codes = <<>> THEN <<>>
    ELSE IF Len(codes) = 1 THEN codes[1]
    ELSE codes[1] \o <<Semi>> \o JoinCode(Tail(codes))

buffer(code) == <<Tok("out.push(", <<>>, 0)>> \o code \o <<Tok(")", <<>>, 0)>>

bufferEscaped(code) ==
    buffer(<<Tok("escapeHtml(", <<>>, 0)>> \o code \o <<Tok(")", <<>>, 0)>>)

\* JSON.stringify(str): a string literal; str is given by its pieces
Literal(pieces) == <<Tok("literal", pieces, 0)>>

bufferText(pieces) == buffer(Literal(pieces))

bufferEscapedText(pieces) == bufferEscaped(Literal(pieces))

\* the code as it is, not wrapped in a function of its own
unscoped(code) == code

scoped(code) ==
    <<Tok("(function(locals){", <<>>, 0)>> \o code
        \o <<Tok("})(Object.create(locals))", <<>>, 0)>>

\* '$$[' + index + '](locals)'
ExprCall(index) == <<Tok("$$[](locals)", <<>>, index)>>

----------------------------------------------------------------------------
(* Values, promises and the microtask queue *)

\* a JavaScript value held by a promise or returned by a handler:
\* undefined, a code string, an array of values, a loaded text, an Error
\* (err: what the error is, path: the path it is annotated with, if any)
Undefined ==
    [kind |-> "undefined", code |-> <<>>, list |-> <<>>,
     content |-> NoContent, err |-> "", path |-> <<>>]
CodeVal(code) == [Undefined EXCEPT !.kind = "code", !.code = code]
ListVal(list) == [Undefined EXCEPT !.kind = "list", !.list = list]
ContentVal(content) ==
    [Undefined EXCEPT !.kind = "content", !.content = content]
ErrorVal(err) == [Undefined EXCEPT !.kind = "error", !.err = err]
\* the renderer compile resolves with: the function built from the code
RendererVal(code) == [Undefined EXCEPT !.kind = "renderer", !.code = code]

\* String(v) as Array.prototype.join applies it: undefined gives ''
AsString(v) == IF v.kind = "undefined" THEN <<>> ELSE v.code

\* what a handler returns: a value, or a promise (by its index)
RetVal(val) == [isPromise |-> FALSE, p |-> 0, val |-> val]
RetPromise(p) == [isPromise |-> TRUE, p |-> p, val |-> Undefined]

\* a stored definition, ctx.defs[name]; found = FALSE: no entry.
\* origin: the context whose defs holds the entry.
NoDef == [found |-> FALSE, mode |-> "", code |-> <<>>, origin |-> 0]

\* a .then callback with the variables it closes over
NoCont ==
    [kind |-> "none", ast |-> 0, addr |-> <<>>, ctx |-> 0, file |-> <<>>,
     def |-> NoDef, escaped |-> FALSE, code |-> <<>>, all |-> 0, idx |-> 0,
     target |-> 0]

\* the error values of the model
SyntaxError == "SyntaxError"
LoadError == "LoadError"
LoaderThrew == "LoaderThrew"
OutsideScope == "is outside scope"
UnknownNodeType == "Unknown node type"

\* new Promise: pending; cont is the callback that settles it (for a
\* promise made by then), src the promise the callback is attached to
NewPromise(s, cont, src) ==
    [s EXCEPT !.promises = Append(@,
        [state |-> "pending", value |-> Undefined, reactions |-> <<>>,
         cont |-> cont, src |-> src])]

ReactionJob(q, arg, ok) ==
    [type |-> "reaction", q |-> q, r |-> 0, arg |-> arg, ok |-> ok]

ThenableJob(q, r) ==
    [type |-> "thenable", q |-> q, r |-> r, arg |-> Undefined, ok |-> TRUE]

\* p.then(cont): the derived promise is returned in s.ret
Then(s, p, cont) ==
    [NewPromise(s, cont, p) EXCEPT
        !.promises[p].reactions =
            IF s.promises[p].state = "pending"
            THEN Append(@, Len(s.promises) + 1) ELSE @,
        !.queue =
            IF s.promises[p].state = "pending" THEN @
            ELSE Append(@, ReactionJob(Len(s.promises) + 1,
                                       s.promises[p].value,
                                       s.promises[p].state = "fulfilled")),
        !.ret = RetPromise(Len(s.promises) + 1)]

\* p.then(cont) for the promise p a call has just returned, unless the call
\* threw: the exception passes up through the caller
ThenUnlessThrown(s, cont) ==
    IF s.exc # "" THEN s ELSE Then(s, s.ret.p, cont)

\* fulfil or reject a pending promise and queue its reactions
Settle(s, p, state, value) ==
    IF s.promises[p].state # "pending" THEN s
    ELSE [s EXCEPT !.promises[p].state = state,
                   !.promises[p].value = value,
                   !.promises[p].reactions = <<>>,
                   !.queue = @ \o
                       [i \in 1..Len(s.promises[p].reactions) |->
                           ReactionJob(s.promises[p].reactions[i], value,
                                       state = "fulfilled")]]

\* resolve q with what a callback returned: a promise is adopted by a job
Resolve(s, q, ret) ==
    IF ret.isPromise
    THEN [s EXCEPT !.queue = Append(@, ThenableJob(q, ret.p))]
    ELSE Settle(s, q, "fulfilled", ret.val)

\* Promise.resolve(e) for an element of Promise.all: the promise itself, or
\* a new promise fulfilled with the value
PromiseResolve(s, e) ==
    IF e.isPromise THEN s
    ELSE [s EXCEPT !.promises = Append(@,
             [state |-> "fulfilled", value |-> e.val, reactions |-> <<>>,
              cont |-> NoCont, src |-> 0])]

\* Promise.all, the loop over the elements: Promise.resolve(e).then(...)
RECURSIVE AllSubscribe(_, _, _, _)
AllSubscribe(s, a, elems, i) ==
    IF i > Len(elems) THEN s
    ELSE AllSubscribe(
             Then(PromiseResolve(s, elems[i]),
                  IF elems[i].isPromise THEN elems[i].p
                  ELSE Len(s.promises) + 1,
                  [NoCont EXCEPT !.kind = "allElement", !.all = a, !.idx = i]),
             a, elems, i + 1)

\* Promise.all: the promise it returns and its bookkeeping
AllStart(s, elems) ==
    [NewPromise(s, [NoCont EXCEPT !.kind = "all", !.all = Len(s.alls) + 1], 0)
        EXCEPT !.alls = Append(@,
            [remaining |-> Len(elems),
             values |-> [i \in 1..Len(elems) |-> Undefined],
             p |-> Len(s.promises) + 1, elems |-> elems])]

\* Promise.all, after the loop: an empty array is resolved at once
AllFinish(s, P, elems) ==
    [(IF Len(elems) = 0 THEN Settle(s, P, "fulfilled", ListVal(<<>>)) ELSE s)
        EXCEPT !.ret = RetPromise(P)]

\* Promise.all(elems): the promise is returned in s.ret
PromiseAll(s, elems) ==
    AllFinish(AllSubscribe(AllStart(s, elems), Len(s.alls) + 1, elems, 1),
              Len(s.promises) + 1, elems)

\* Promise.all over the array a map has just returned, unless the map threw
AllUnlessThrown(s) ==
    IF s.exc # "" THEN s ELSE PromiseAll(s, s.rets)

\* Promise.all, one element fulfilled: its value is kept at its own index
AllStore(s, a, idx, arg) ==
    [s EXCEPT !.alls[a].values[idx] = arg, !.alls[a].remaining = @ - 1]

\* Promise.all, after an element was stored: resolved with the last one
AllCount(s, a) ==
    IF s.alls[a].remaining = 0
    THEN Settle(s, s.alls[a].p, "fulfilled", ListVal(s.alls[a].values))
    ELSE s

\* Promise.all, one element settled
AllElement(s, a, idx, arg, ok) ==
    IF ~ok THEN Settle(s, s.alls[a].p, "rejected", arg)
    ELSE AllCount(AllStore(s, a, idx, arg), a)

----------------------------------------------------------------------------
(* The compiler, its loader and the Job *)

VARIABLES
    fs,             \* the templates behind the caller's loader, and the root
    stripComments,  \* options.stripComments of createCompiler
    compiles,       \* number of compile() calls made so far
    results,        \* what the earlier compile() calls came to
    file,           \* job.file
    expressions,    \* job.expressions
    cachedNodes,    \* job.cachedNodes: path -> index into asts
    asts,           \* the node lists grammar.parse has returned
    ctxs,           \* the contexts {parent, file, defs} created so far
    statements,     \* per context of an include: its `statements` array
    loads,          \* the calls made to the caller's loader
    promises,       \* every promise of the job
    alls,           \* the bookkeeping of every Promise.all
    queue,          \* the microtask queue
    compileP,       \* the promise job.compile() returned (0: none)
    thrown,         \* the error compile() threw synchronously ("": none)
    globals,        \* the table globals of the renderer's closure
    renders,        \* the calls of the renderer: data, output, scopes
    pathCall,       \* a call of localPath on its own: arguments and result
    htmlCall,       \* a call of escapeHtml on its own: argument and result
    jobCompiles     \* the calls of compile() on the current Job

vars ==
    <<fs, stripComments, compiles, results, file, expressions, cachedNodes,
      asts, ctxs, statements, loads, promises, alls, queue, compileP, thrown,
      globals, renders, pathCall, htmlCall, jobCompiles>>

\* what the caller's loader does for a path: a file that is not there is a
\* rejection, as with fs.readFile
LoaderResponse(path) ==
    IF path \in DOMAIN fs.files THEN fs.files[path]
    ELSE [resp |-> "reject", content |-> NoContent]

\* the job and the promise machinery as one record, for the handlers below;
\* ret: the value a call returned, rets: the array a map returned,
\* exc: the exception being thrown ("": none)
JobState ==
    [expressions |-> expressions, cachedNodes |-> cachedNodes, asts |-> asts,
     ctxs |-> ctxs, statements |-> statements, loads |-> loads,
     promises |-> promises, alls |-> alls, queue |-> queue,
     ret |-> RetVal(Undefined), rets |-> <<>>, exc |-> ""]

\* new Job(params): the constructor's assignments
NewJob ==
    [expressions |-> <<>>, cachedNodes |-> <<>>, asts |-> <<>>,
     ctxs |-> <<>>, statements |-> <<>>, loads |-> <<>>,
     promises |-> <<>>, alls |-> <<>>, queue |-> <<>>,
     ret |-> RetVal(Undefined), rets |-> <<>>, exc |-> ""]

\* the properties the constructor sets on the instance itself
JobOwnProperties ==
    {"file", "load", "stripComments", "expressions", "cachedNodes"}

\* params.load(file): the caller's loader is invoked
CallLoader(s, path) ==
    IF LoaderResponse(path).resp = "throw"
    THEN [s EXCEPT !.loads = Append(@,
             [file |-> path, p |-> 0, state |-> "threw"]),
                   !.exc = LoaderThrew]
    ELSE [NewPromise(s, NoCont, 0) EXCEPT
             !.loads = Append(@, [file |-> path, p |-> Len(s.promises) + 1,
                                  state |-> "pending"]),
             !.ret = RetPromise(Len(s.promises) + 1)]

\* Job.prototype.load
PrototypeLoad(s, path) ==
    IF StartsWith(path, <<".", ".", "/">>)
    THEN [s EXCEPT !.exc = OutsideScope]
    ELSE CallLoader(s, path)

\* this.load(file): an own property of the instance is found before the
\* property of the same name on Job.prototype
Load(s, path) ==
    IF "load" \in JobOwnProperties
    THEN CallLoader(s, path)
    ELSE PrototypeLoad(s, path)

\* a lookup in one table of definitions for the whole job
findDefinitionAnyContext(cs, name, ctx) ==
    IF \E c \in 1..Len(cs) : cs[c].defs[name].found
    THEN cs[CHOOSE c \in 1..Len(cs) : cs[c].defs[name].found].defs[name]
    ELSE NoDef

\* a lookup in which the outermost context that defines the name wins
RECURSIVE findDefinitionOutermost(_, _, _)
findDefinitionOutermost(cs, name, ctx) ==
    IF cs[ctx].parent # 0
       /\ findDefinitionOutermost(cs, name, cs[ctx].parent).found
    THEN findDefinitionOutermost(cs, name, cs[ctx].parent)
    ELSE cs[ctx].defs[name]

RECURSIVE findDefinition(_, _, _)
findDefinition(cs, name, ctx) ==
    IF cs[ctx].defs[name].found THEN cs[ctx].defs[name]
    ELSE IF cs[ctx].parent # 0 THEN findDefinition(cs, name, cs[ctx].parent)
    ELSE NoDef

\* the handlers of Job.NODE_TYPES
NODE_TYPES ==
    {"plain", "comment", "def", "block", "include", "inline", "expr", "var",
     "if", "each"}

\* this.expressions.push(AngularExpressions.compile(expr)); the index
PushExpression(s, expr) == [s EXCEPT !.expressions = Append(@, expr)]

\* the index read as this.expressions.length
LastIndexPastEnd(s) == Len(s.expressions)

LastIndex(s) == Len(s.expressions) - 1

\* processComment without the test of this.stripComments
processCommentAlways(s, node) ==
    [s EXCEPT !.ret =
        RetVal(CodeVal(bufferText(<<"<!--", node.text, "-->">>)))]

processComment(s, node) ==
    IF stripComments THEN [s EXCEPT !.ret = RetVal(Undefined)]
    ELSE [s EXCEPT !.ret =
             RetVal(CodeVal(bufferText(<<"<!--", node.text, "-->">>)))]

processExpr(s, node) ==
    LET s1 == PushExpression(s, node.text)
        call == ExprCall(LastIndex(s1))
    IN  [s1 EXCEPT !.ret = RetVal(CodeVal(
            IF node.buffer
            THEN IF node.escape THEN bufferEscaped(call) ELSE buffer(call)
            ELSE call))]

processVar(s, node) ==
    LET s1 == PushExpression(s, node.text)
    IN  [s1 EXCEPT !.ret = RetVal(CodeVal(
            <<Tok("locals.=", <<node.name>>, 0)>> \o ExprCall(LastIndex(s1))))]

\* processInline: a file that begins with '!' loses it, in the parsed node
StripBang(s, ast, addr) ==
    IF StartsWith(NodeAt(s.asts[ast], addr).file, <<"!">>)
    THEN [s EXCEPT !.asts[ast] =
             SetFile(@, addr, Tail(NodeAt(s.asts[ast], addr).file))]
    ELSE s

\* processInline from localPath on, with the node as StripBang left it
InlineLoad(s, ast, addr, ctx, escaped) ==
    ThenUnlessThrown(
        Load(s, localPath(s.ctxs[ctx].file, NodeAt(s.asts[ast], addr).file)),
        [NoCont EXCEPT !.kind = "inline", !.escaped = escaped])

\* processInline up to the call of then
processInline(s, ast, addr, ctx) ==
    InlineLoad(StripBang(s, ast, addr), ast, addr, ctx,
               ~StartsWith(NodeAt(s.asts[ast], addr).file, <<"!">>))

RECURSIVE processNode(_, _, _, _), MapNodes(_, _, _, _, _, _),
          MapNext(_, _, _, _, _, _), MapWhenNext(_, _, _, _, _, _)

\* nodes.map(node => this.processNode(node, ctx)) over the list at addr,
\* from the i-th node on; a throw ends the loop
MapNodes(s, ast, addr, ctx, i, acc) ==
    IF s.exc # "" THEN s
    ELSE IF i > Len(ChildrenAt(s.asts[ast], addr))
    THEN [s EXCEPT !.rets = acc]
    ELSE MapNext(processNode(s, ast, addr \o <<i>>, ctx),
                 ast, addr, ctx, i, acc)

\* the map goes on with what the i-th node returned
MapNext(s, ast, addr, ctx, i, acc) ==
    MapNodes(s, ast, addr, ctx, i + 1, Append(acc, s.ret))

\* processNodes for the list at addr of a parsed file
processNodes(s, ast, addr, ctx) ==
    ThenUnlessThrown(
        AllUnlessThrown(MapNodes(s, ast, addr, ctx, 1, <<>>)),
        [NoCont EXCEPT !.kind = "join", !.ast = ast, !.addr = addr,
                       !.ctx = ctx])

\* processDef up to the call of then
processDef(s, ast, addr, ctx) ==
    ThenUnlessThrown(
        processNodes(s, ast, addr, ctx),
        [NoCont EXCEPT !.kind = "def", !.ast = ast, !.addr = addr,
                       !.ctx = ctx])

\* processBlock that leaves the default body out when a definition of mode
\* def replaces it
processBlockReplaced(s, ast, addr, ctx) ==
    ThenUnlessThrown(
        IF findDefinition(s.ctxs, NodeAt(s.asts[ast], addr).name, ctx).found
           /\ findDefinition(s.ctxs, NodeAt(s.asts[ast], addr).name,
                             ctx).mode = "def"
        THEN Then(PromiseAll(s, <<>>), Len(s.promises) + 1,
                  [NoCont EXCEPT !.kind = "join", !.ast = ast,
                                 !.addr = addr, !.ctx = ctx])
        ELSE processNodes(s, ast, addr, ctx),
        [NoCont EXCEPT !.kind = "block", !.ast = ast, !.addr = addr,
                       !.ctx = ctx,
                       !.def = findDefinition(s.ctxs,
                                   NodeAt(s.asts[ast], addr).name, ctx)])

\* processBlock up to the call of then
processBlock(s, ast, addr, ctx) ==
    ThenUnlessThrown(
        processNodes(s, ast, addr, ctx),
        [NoCont EXCEPT !.kind = "block", !.ast = ast, !.addr = addr,
                       !.ctx = ctx,
                       !.def = findDefinition(s.ctxs,
                                   NodeAt(s.asts[ast], addr).name, ctx)])

\* processInclude: newCtx = {parent: ctx, file: ctx.file, defs: {}}
NewContext(s, ctx) ==
    [s EXCEPT !.ctxs = Append(@,
                  [parent |-> ctx, file |-> s.ctxs[ctx].file,
                   defs |-> [n \in BlockNames |-> NoDef]]),
              !.statements = Append(@, <<>>)]

\* Promise.all([]) in place of Promise.all(promises)
AllOfNone(s) ==
    IF s.exc # "" THEN s ELSE PromiseAll(s, <<>>)

\* processInclude that does not wait for the promises of the children
processIncludeNoWait(s, ast, addr, ctx) ==
    ThenUnlessThrown(
        ThenUnlessThrown(
            AllOfNone(
                MapNodes(NewContext(s, ctx), ast, addr, Len(s.ctxs) + 1,
                         1, <<>>)),
            [NoCont EXCEPT !.kind = "includeDefs", !.ast = ast,
                           !.addr = addr, !.ctx = Len(s.ctxs) + 1]),
        [NoCont EXCEPT !.kind = "includeFile", !.ctx = Len(s.ctxs) + 1])

\* the handler returns undefined in place of the promise it has made
Detached(s) ==
    IF s.exc # "" THEN s ELSE [s EXCEPT !.ret = RetVal(Undefined)]

\* processInclude that does not return its promise: the file is processed
\* on a chain nothing waits for
processIncludeDetached(s, ast, addr, ctx) ==
    Detached(
        ThenUnlessThrown(
            ThenUnlessThrown(
                AllUnlessThrown(
                    MapNodes(NewContext(s, ctx), ast, addr, Len(s.ctxs) + 1,
                             1, <<>>)),
                [NoCont EXCEPT !.kind = "includeDefs", !.ast = ast,
                               !.addr = addr, !.ctx = Len(s.ctxs) + 1]),
            [NoCont EXCEPT !.kind = "includeFile", !.ctx = Len(s.ctxs) + 1]))

\* processInclude up to the second call of then
processInclude(s, ast, addr, ctx) ==
    ThenUnlessThrown(
        ThenUnlessThrown(
            AllUnlessThrown(
                MapNodes(NewContext(s, ctx), ast, addr, Len(s.ctxs) + 1,
                         1, <<>>)),
            [NoCont EXCEPT !.kind = "includeDefs", !.ast = ast,
                           !.addr = addr, !.ctx = Len(s.ctxs) + 1]),
        [NoCont EXCEPT !.kind = "includeFile", !.ctx = Len(s.ctxs) + 1])

\* processIf: node.when.map(when => ...), from the i-th When on
RECURSIVE MapWhen(_, _, _, _, _, _)
MapWhen(s, ast, addr, ctx, i, acc) ==
    IF s.exc # "" THEN s
    ELSE IF i > Len(SelectSeq(ChildrenAt(s.asts[ast], addr),
                              LAMBDA n : n.type = "when"))
    THEN [s EXCEPT !.rets = acc]
    ELSE MapWhenNext(
             ThenUnlessThrown(
                 processNodes(
                     PushExpression(s, NodeAt(s.asts[ast], addr \o <<i>>).text),
                     ast, addr \o <<i>>, ctx),
                 [NoCont EXCEPT !.kind = "when", !.idx = Len(s.expressions)]),
             ast, addr, ctx, i, acc)

\* the map goes on with the promise made for the i-th When
MapWhenNext(s, ast, addr, ctx, i, acc) ==
    MapWhen(s, ast, addr, ctx, i + 1, Append(acc, s.ret))

\* processIf up to the call of then
processIf(s, ast, addr, ctx) ==
    ThenUnlessThrown(
        AllUnlessThrown(MapWhen(s, ast, addr, ctx, 1, <<>>)),
        [NoCont EXCEPT !.kind = "ifs", !.ast = ast, !.addr = addr,
                       !.ctx = ctx])

\* processEach up to the call of then
processEach(s, ast, addr, ctx) ==
    ThenUnlessThrown(
        processNodes(PushExpression(s, NodeAt(s.asts[ast], addr).text),
                     ast, addr, ctx),
        [NoCont EXCEPT !.kind = "each", !.idx = Len(s.expressions),
                       !.ast = ast, !.addr = addr])

\* processNode, the call of the handler of the node's type
Handle(s, node, ast, addr, ctx) ==
    CASE node.type = "comment" -> processComment(s, node)
      [] node.type = "def" -> processDef(s, ast, addr, ctx)
      [] node.type = "block" -> processBlock(s, ast, addr, ctx)
      [] node.type = "include" -> processInclude(s, ast, addr, ctx)
      [] node.type = "inline" -> processInline(s, ast, addr, ctx)
      [] node.type = "expr" -> processExpr(s, node)
      [] node.type = "var" -> processVar(s, node)
      [] node.type = "if" -> processIf(s, ast, addr, ctx)
      [] node.type = "each" -> processEach(s, ast, addr, ctx)

processNode(s, ast, addr, ctx) ==
    IF NodeAt(s.asts[ast], addr).type = "string"
    THEN [s EXCEPT !.ret = RetVal(CodeVal(
             bufferText(<<NodeAt(s.asts[ast], addr).text>>)))]
    ELSE IF NodeAt(s.asts[ast], addr).type \notin NODE_TYPES
    THEN [s EXCEPT !.exc = UnknownNodeType]
    ELSE Handle(s, NodeAt(s.asts[ast], addr), ast, addr, ctx)

\* processFile from the cache lookup on, for the path localPath gave
ProcessResolved(s, resolved, ctx) ==
    IF resolved \in DOMAIN s.cachedNodes
    THEN processNodes(s, s.cachedNodes[resolved], <<>>, ctx)
    ELSE ThenUnlessThrown(
             Load(s, resolved),
             [NoCont EXCEPT !.kind = "file", !.file = resolved, !.ctx = ctx])

\* processFile up to the call of then
\* processFile that resolves the path against the file of its own context
processFileOwnContext(s, path, ctx) ==
    ProcessResolved(s, localPath(s.ctxs[ctx].file, path), ctx)

processFile(s, path, ctx) ==
    ProcessResolved(
        s,
        localPath(IF s.ctxs[ctx].parent # 0
                  THEN s.ctxs[s.ctxs[ctx].parent].file ELSE <<>>,
                  path),
        ctx)

----------------------------------------------------------------------------
(* The .then callbacks *)

\* the statements joined last to first
JoinStatementsReversed(list) ==
    JoinCode([i \in 1..Len(list) |-> AsString(list[Len(list) + 1 - i])])

\* statements => statements.join(';')
JoinStatements(list) == JoinCode([i \in 1..Len(list) |-> AsString(list[i])])

\* processNodes: .then(statements => statements.join(';'))
JoinCallback(s, arg) ==
    [s EXCEPT !.ret = RetVal(CodeVal(JoinStatements(arg.list)))]

\* processDef: the code stored for a definition that meets the entry def
MergeDefinition(def, code) ==
    IF def.found /\ def.mode = "append" THEN JoinCode(<<def.code, code>>)
    ELSE IF def.found /\ def.mode = "prepend" THEN JoinCode(<<code, def.code>>)
    ELSE code

\* processDef: .then(code => { ... ctx.defs[node.name] = {...} })
DefCallback(s, c, arg) ==
    LET node == NodeAt(s.asts[c.ast], c.addr)
        def  == s.ctxs[c.ctx].defs[node.name]
    IN  [s EXCEPT !.ctxs[c.ctx].defs[node.name] =
                      [found |-> TRUE, mode |-> node.mode,
                       code |-> MergeDefinition(def, arg.code),
                       origin |-> c.ctx],
                  !.ret = RetVal(Undefined)]

\* processBlock with the cases of append and prepend exchanged
MergeBlockSwapped(def, code) ==
    IF ~def.found THEN code
    ELSE IF def.mode = "append" THEN JoinCode(<<def.code, code>>)
    ELSE IF def.mode = "prepend" THEN JoinCode(<<code, def.code>>)
    ELSE def.code

\* processBlock: what the block emits for its default body and the def found
MergeBlock(def, code) ==
    IF ~def.found THEN code
    ELSE IF def.mode = "append" THEN JoinCode(<<code, def.code>>)
    ELSE IF def.mode = "prepend" THEN JoinCode(<<def.code, code>>)
    ELSE def.code

\* processBlock: .then(code => { ... })
BlockCallback(s, c, arg) ==
    [s EXCEPT !.ret = RetVal(CodeVal(MergeBlock(c.def, arg.code)))]

\* processInclude: the first then, after Promise.all(promises)
IncludeDefsCallback(s, c, arg) ==
    processFile(
        [s EXCEPT !.statements[c.ctx] = @ \o arg.list,
                  !.ctxs[c.ctx].file =
                      localPath(@, NodeAt(s.asts[c.ast], c.addr).file)],
        NodeAt(s.asts[c.ast], c.addr).file, c.ctx)

\* processInclude that puts the code of the file before the statements
IncludeFileCallbackFileFirst(s, c, arg) ==
    [s EXCEPT !.ret = RetVal(CodeVal(
        scoped(JoinStatements(<<arg>> \o s.statements[c.ctx]))))]

\* processInclude: the second then
IncludeFileCallback(s, c, arg) ==
    [s EXCEPT !.ret = RetVal(CodeVal(
        scoped(JoinStatements(Append(s.statements[c.ctx], arg)))))]

\* processFile: this.cachedNodes[file] = nodes, for the nodes just parsed
CacheNodes(s, path, nodes) ==
    [s EXCEPT !.asts = Append(@, nodes),
              !.cachedNodes = (path :> Len(s.asts) + 1) @@ @]

\* processFile that takes a text the grammar rejects for an empty template
FileCallbackLenient(s, c, arg) ==
    processNodes(
        CacheNodes(s, c.file,
                   IF arg.content.valid THEN arg.content.nodes ELSE <<>>),
        Len(s.asts) + 1, <<>>, c.ctx)

\* processFile: .then(content => { parse, cache, processNodes })
FileCallback(s, c, arg) ==
    IF ~arg.content.valid THEN [s EXCEPT !.exc = SyntaxError]
    ELSE processNodes(CacheNodes(s, c.file, arg.content.nodes),
                      Len(s.asts) + 1, <<>>, c.ctx)

\* processInline: .then(content => escaped ? ... : ...)
InlineCallback(s, c, arg) ==
    [s EXCEPT !.ret = RetVal(CodeVal(
        IF c.escaped THEN bufferEscapedText(<<arg.content.text>>)
        ELSE bufferText(<<arg.content.text>>)))]

\* processIf: .then(code => ifCap + '{' + code + '}'), where ifCap is
\* 'if ($$[' + index + '](locals))'
WhenCallback(s, c, arg) ==
    [s EXCEPT !.ret = RetVal(CodeVal(
        <<Tok("if (", <<>>, 0)>> \o ExprCall(c.idx) \o <<Tok(")", <<>>, 0)>>
        \o <<Tok("{", <<>>, 0)>> \o arg.code \o <<Tok("}", <<>>, 0)>>))]

\* ifs.join(';'): the arms as statements of their own
JoinElseSemi(ifs) == JoinCode([i \in 1..Len(ifs) |-> AsString(ifs[i])])

\* ifs.join(' else ')
RECURSIVE JoinElse(_)
JoinElse(ifs) ==
    IF ifs = <<>> THEN <<>>
    ELSE IF Len(ifs) = 1 THEN AsString(ifs[1])
    ELSE AsString(ifs[1]) \o <<Tok(" else ", <<>>, 0)>> \o JoinElse(Tail(ifs))

\* node.otherwise of the If at addr: the index of the child, 0 for none
OtherwiseOf(s, ast, addr) ==
    IF \E i \in 1..Len(ChildrenAt(s.asts[ast], addr)) :
           ChildrenAt(s.asts[ast], addr)[i].type = "otherwise"
    THEN Len(ChildrenAt(s.asts[ast], addr))
    ELSE 0

\* processIf: .then(ifs => { ... })
IfsCallback(s, c, arg) ==
    IF OtherwiseOf(s, c.ast, c.addr) = 0
    THEN [s EXCEPT !.ret = RetVal(CodeVal(scoped(JoinElse(arg.list))))]
    ELSE ThenUnlessThrown(
             processNodes(s, c.ast,
                          c.addr \o <<OtherwiseOf(s, c.ast, c.addr)>>, c.ctx),
             [NoCont EXCEPT !.kind = "otherwise",
                            !.code = JoinElse(arg.list)])

\* processIf: .then(code => scoped(statement + 'else {' + code + '}'))
OtherwiseCallback(s, c, arg) ==
    [s EXCEPT !.ret = RetVal(CodeVal(scoped(
        c.code \o <<Tok("else ", <<>>, 0), Tok("{", <<>>, 0)>> \o arg.code
        \o <<Tok("}", <<>>, 0)>>)))]

\* processEach: .then(code => scoped(statement + code + '})'))
EachCallback(s, c, arg) ==
    [s EXCEPT !.ret = RetVal(CodeVal(scoped(
        <<Tok("each(", <<>>, 0)>> \o ExprCall(c.idx)
        \o <<Tok(",name,locals,function(locals) {",
                 <<NodeAt(s.asts[c.ast], c.addr).name>>, 0)>>
        \o arg.code \o <<Tok("})", <<>>, 0)>>)))]

\* compile: .then(code => { new Function(...); return fn({expressions}) })
CompiledCallback(s, arg) ==
    [s EXCEPT !.ret = RetVal(RendererVal(arg.code))]

Callback(s, c, arg) ==
    CASE c.kind = "join" -> JoinCallback(s, arg)
      [] c.kind = "def" -> DefCallback(s, c, arg)
      [] c.kind = "block" -> BlockCallback(s, c, arg)
      [] c.kind = "includeDefs" -> IncludeDefsCallback(s, c, arg)
      [] c.kind = "includeFile" -> IncludeFileCallback(s, c, arg)
      [] c.kind = "file" -> FileCallback(s, c, arg)
      [] c.kind = "inline" -> InlineCallback(s, c, arg)
      [] c.kind = "compiled" -> CompiledCallback(s, arg)
      [] c.kind = "when" -> WhenCallback(s, c, arg)
      [] c.kind = "ifs" -> IfsCallback(s, c, arg)
      [] c.kind = "otherwise" -> OtherwiseCallback(s, c, arg)
      [] c.kind = "each" -> EachCallback(s, c, arg)

\* the promise a then returned, after its callback ran: rejected with what
\* the callback threw, or resolved with what it returned
AfterCallback(s, q) ==
    IF s.exc # ""
    THEN Settle([s EXCEPT !.exc = ""], q, "rejected", ErrorVal(s.exc))
    ELSE Resolve(s, q, s.ret)

\* a reaction job: the callback of the then that made the promise q
React(s, c, job) ==
    IF c.kind = "adopt"
    THEN Settle(Settle(s, c.target,
                       IF job.ok THEN "fulfilled" ELSE "rejected", job.arg),
                job.q, "fulfilled", Undefined)
    ELSE IF c.kind = "allElement"
    THEN Settle(AllElement(s, c.all, c.idx, job.arg, job.ok),
                job.q, "fulfilled", Undefined)
    ELSE IF ~job.ok
    THEN \* then(onFulfilled) alone: a rejection passes through
         Settle(s, job.q, "rejected", job.arg)
    ELSE AfterCallback(Callback(s, c, job.arg), job.q)

\* one job of the microtask queue
RunJob(s, job) ==
    IF job.type = "thenable"
    THEN \* r.then(resolve q, reject q)
         Then(s, job.r, [NoCont EXCEPT !.kind = "adopt", !.target = job.q])
    ELSE React(s, s.promises[job.q].cont, job)

----------------------------------------------------------------------------
(* The renderer: the function compile builds from the code and runtime.js *)

\* the JavaScript values of a render: undefined, null, strings, booleans,
\* numbers, arrays of values and the built-in objects
Undef == [k |-> "undefined", s |-> "", n |-> 0, items |-> <<>>]
Null == [Undef EXCEPT !.k = "null"]
StrV(str) == [Undef EXCEPT !.k = "string", !.s = str]
BoolV(b) == [Undef EXCEPT !.k = "boolean", !.s = IF b THEN "true" ELSE "false"]
NumV(n) == [Undef EXCEPT !.k = "number", !.n = n]
ArrV(items) == [Undef EXCEPT !.k = "array", !.items = items]
Builtin(name) == [Undef EXCEPT !.k = "builtin", !.s = name]
\* a plain object: its own keys with their values, in insertion order
ObjV(entries) == [Undef EXCEPT !.k = "object", !.items = entries]
Entry(key, val) == [key |-> key, val |-> val]

\* the code units of the characters that object keys are made of
CharCode == ("B" :> 66) @@ ("a" :> 97) @@ ("b" :> 98) @@ ("c" :> 99)

\* the keys as Object.keys gives them, in insertion order
Unsorted(keys) == keys

\* Array.prototype.sort() without a comparator over keys of one character:
\* ascending by code unit
RECURSIVE Sort(_)
Sort(keys) ==
    IF keys = <<>> THEN <<>>
    ELSE LET least == CHOOSE i \in 1..Len(keys) :
                          \A j \in 1..Len(keys) :
                              CharCode[keys[i]] <= CharCode[keys[j]]
         IN  <<keys[least]>>
             \o Sort([j \in 1..(Len(keys) - 1) |->
                         IF j < least THEN keys[j] ELSE keys[j + 1]])

\* obj[k] for an own key k of a plain object
Get(obj, key) ==
    obj.items[CHOOSE i \in 1..Len(obj.items) : obj.items[i].key = key].val

\* what forEach hands to it, element by element: for an array the
\* elements with their positions, for an object the keys
\* Object.keys(obj).sort() with obj[k]
Elements(obj) ==
    IF obj.k = "array"
    THEN [i \in 1..Len(obj.items) |-> Entry(NumV(i - 1), obj.items[i])]
    ELSE LET keys == Sort([i \in 1..Len(obj.items) |-> obj.items[i].key])
         IN  [i \in 1..Len(keys) |-> Entry(StrV(keys[i]), Get(obj, keys[i]))]

\* the conversion of a value to a boolean in if (...)
Truthy(v) ==
    ~ \/ v.k \in {"undefined", "null"}
      \/ v = BoolV(FALSE)
      \/ v = StrV("")
      \/ v = NumV(0)

\* var globals = {...} of the runtime
Globals ==
    [n \in {"encodeURI", "encodeURIComponent", "decodeURI",
            "decodeURIComponent", "Date", "Math", "JSON", "Object"}
        |-> Builtin(n)]

\* extend() that keeps the value a key has already
RECURSIVE extendFirstWins(_)
extendFirstWins(argv) ==
    IF argv = <<>> THEN <<>>
    ELSE argv[1] @@ extendFirstWins(Tail(argv))

\* extend(): the keys of each object in turn are copied to a new object
RECURSIVE extend(_)
extend(argv) ==
    IF argv = <<>> THEN <<>>
    ELSE argv[Len(argv)] @@ extend(SubSeq(argv, 1, Len(argv) - 1))

\* an object of the render: its prototype (0: none) and its own properties
Obj(parent, props) == [parent |-> parent, props |-> props]

\* Object.create(locals): a new object whose prototype is the current scope
ObjectCreate(m) ==
    [m EXCEPT !.heap = Append(@, Obj(m.cur, <<>>)), !.cur = Len(m.heap) + 1]

\* the value of a property read through the prototype chain
RECURSIVE Lookup(_, _, _)
Lookup(heap, id, name) ==
    IF id = 0 THEN Undef
    ELSE IF name \in DOMAIN heap[id].props THEN heap[id].props[name]
    ELSE Lookup(heap, heap[id].parent, name)

\* the expressions the templates use that do not read the scope: literals
ConstantExpressions ==
    ("'o'" :> StrV("o")) @@ ("'i'" :> StrV("i")) @@ ("'a'" :> StrV("a"))
    @@ ("'e'" :> StrV("e")) @@ ("'m'" :> StrV("m")) @@ ("true" :> BoolV(TRUE))

\* $$[index](locals): the compiled expression applied to the scope; every
\* other expression of the templates is one identifier
Eval(exprs, index, m) ==
    IF exprs[index + 1] \in DOMAIN ConstantExpressions
    THEN ConstantExpressions[exprs[index + 1]]
    ELSE Lookup(m.heap, m.cur, exprs[index + 1])

\* an event of a render, kept for inspection: a scope made by a scoped
\* function ("scope") or for an iteration ("iter"), a call of each ("each"),
\* an assignment of a Var ("var") or of a loop binding ("bind")
Event(ev, scope, parent, name, val) ==
    [ev |-> ev, scope |-> scope, parent |-> parent, name |-> name,
     val |-> val]

\* locals[name] = val on the current scope
Assign(m, name, val, ev) ==
    [m EXCEPT !.heap[m.cur].props = (name :> val) @@ @,
              !.log = Append(@, Event(ev, m.cur, 0, name, val))]

Frame(kind, saved, items, pos, start, name) ==
    [kind |-> kind, saved |-> saved, items |-> items, pos |-> pos,
     start |-> start, name |-> name]

Push(m, frame) == [m EXCEPT !.stack = <<frame>> \o @]

Goto(m, pc) == [m EXCEPT !.pc = pc]

\* the position of the token that closes the body which begins at j
RECURSIVE Close(_, _, _)
Close(code, j, depth) ==
    IF code[j].t \in {"}", "})(Object.create(locals))", "})"}
    THEN IF depth = 1 THEN j ELSE Close(code, j + 1, depth - 1)
    ELSE IF code[j].t \in {"{", "(function(locals){",
                            ",name,locals,function(locals) {"}
    THEN Close(code, j + 1, depth + 1)
    ELSE Close(code, j + 1, depth)

\* after an arm of an if has run: the position after the else arms
RECURSIVE SkipElse(_, _)
SkipElse(code, j) ==
    IF j > Len(code) THEN j
    ELSE IF code[j].t = " else "
    THEN SkipElse(code, Close(code, j + 5, 1) + 1)
    ELSE IF code[j].t = "else " THEN Close(code, j + 2, 1) + 1
    ELSE j

\* JSON.stringify(str) read back: the pieces of the string in one
RECURSIVE Concat(_)
Concat(pieces) ==
    IF pieces = <<>> THEN "" ELSE pieces[1] \o Concat(Tail(pieces))

\* the value of the operand at j: a string literal or an expression
Operand(code, exprs, m, j) ==
    IF code[j].t = "literal" THEN StrV(Concat(code[j].v))
    ELSE Eval(exprs, code[j].n, m)

\* str.replace(/c/g, by) on a string as the sequence of its characters:
\* every occurrence of c, from the left, none of them in what was put in
RECURSIVE replace(_, _, _)
replace(str, c, by) ==
    IF str = <<>> THEN <<>>
    ELSE (IF Head(str) = c THEN by ELSE <<Head(str)>>)
         \o replace(Tail(str), c, by)

\* the four replacements with that of '&' made last
escapeHtmlAmpLast(html) ==
    replace(
      replace(
        replace(
          replace(html, "<", <<"&", "l", "t", ";">>),
          ">", <<"&", "g", "t", ";">>),
        "\"", <<"&", "q", "u", "o", "t", ";">>),
      "&", <<"&", "a", "m", "p", ";">>)

\* escapeHtml(html) for a string html: String(html) is html
escapeHtml(html) ==
    replace(
      replace(
        replace(
          replace(html, "&", <<"&", "a", "m", "p", ";">>),
          "<", <<"&", "l", "t", ";">>),
        ">", <<"&", "g", "t", ";">>),
      "\"", <<"&", "q", "u", "o", "t", ";">>)

\* escapeHtml(html) begins with String(html); in the renderer the
\* replacements are kept as a mark on the piece
String(v) ==
    IF v.k = "undefined" THEN StrV("undefined")
    ELSE IF v.k = "null" THEN StrV("null")
    ELSE v

\* what out.join("") makes of an element: undefined and null give ''
Joined(v) == IF v.k \in {"undefined", "null"} THEN StrV("") ELSE v

\* out.push(code) and out.push(escapeHtml(code))
OutPush(code, exprs, m) ==
    IF code[m.pc + 1].t = "escapeHtml("
    THEN [m EXCEPT
             !.out = Append(@, [val |-> String(Operand(code, exprs, m,
                                                       m.pc + 2)),
                                esc |-> TRUE]),
             !.pc = m.pc + 5]
    ELSE [m EXCEPT
             !.out = Append(@, [val |-> Joined(Operand(code, exprs, m,
                                                       m.pc + 1)),
                                esc |-> FALSE]),
             !.pc = m.pc + 3]

\* (function(locals){ ... })(Object.create(locals)): the call
EnterScoped(m) ==
    [ObjectCreate(Push(m, Frame("scope", m.cur, <<>>, 0, 0, "")))
        EXCEPT !.log = Append(@, Event("scope", Len(m.heap) + 1, m.cur, "",
                                       Undef)),
               !.pc = m.pc + 1]

\* the end of a function body or of a block: the frame is left
Leave(m, pc) ==
    [m EXCEPT !.cur = IF Head(m.stack).kind \in {"scope", "each"}
                      THEN Head(m.stack).saved ELSE @,
              !.stack = Tail(@), !.pc = pc]

\* if (cond) { ... }: the condition is evaluated ("when" in the log), then
\* the block is entered or passed over
IfStatement(code, exprs, m) ==
    IF Truthy(Eval(exprs, code[m.pc + 1].n, m))
    THEN Goto(Push([m EXCEPT !.log = Append(@,
                       Event("when", m.cur, 0, exprs[code[m.pc + 1].n + 1],
                             Eval(exprs, code[m.pc + 1].n, m)))],
                   Frame("if", m.cur, <<>>, 0, 0, "")),
              m.pc + 4)
    ELSE Goto([m EXCEPT !.log = Append(@,
                  Event("when", m.cur, 0, exprs[code[m.pc + 1].n + 1],
                        Eval(exprs, code[m.pc + 1].n, m)))],
              Close(code, m.pc + 4, 1) + 1)

\* var isLast = k === arr.length - 1, for every k
IsLastByPosition(items, pos) == items[pos].key = NumV(Len(items) - 1)

\* var isLast = typeof k == 'string' ? arr[arr.length - 1] === k
\*                                    : k === arr.length - 1
IsLast(items, pos) ==
    IF items[pos].key.k = "string"
    THEN items[Len(items)].key = items[pos].key
    ELSE items[pos].key = NumV(Len(items) - 1)

\* each: function it(v, k, arr), up to the call of fn
Bind(m, name, items, pos) ==
    Assign(
      Assign(
        Assign(
          Assign(
            Assign(m, name, items[pos].val, "bind"),
            name \o "_key", items[pos].key, "bind"),
          name \o "_index", items[pos].key, "bind"),
        name \o "_last", BoolV(IsLast(items, pos)), "bind"),
      name \o "_has_next", BoolV(~IsLast(items, pos)), "bind")

\* each: fn(locals), the body runs in the scope each was given
IterateShared(m, start) ==
    [m EXCEPT !.log = Append(@, Event("iter", m.cur, m.cur, "", Undef)),
              !.pc = start]

\* each: fn(Object.create(locals)), the body runs from start
Iterate(m, start) ==
    [ObjectCreate(m) EXCEPT
        !.log = Append(@, Event("iter", Len(m.heap) + 1, m.cur, "", Undef)),
        !.pc = start]

\* each: one call of it for the element at pos, in the scope each was given
Iteration(m, pos) ==
    Iterate(Bind([m EXCEPT !.stack[1].pos = pos, !.cur = m.stack[1].saved],
                 m.stack[1].name, m.stack[1].items, pos),
            m.stack[1].start)

\* each that takes a value it cannot iterate for an empty collection
EachCallLenient(code, m, obj) ==
    IF obj.k \notin {"array", "object"} \/ obj \in {ArrV(<<>>), ObjV(<<>>)}
    THEN Goto(m, Close(code, m.pc + 3, 1) + 1)
    ELSE Iteration(
             [Push(m, Frame("each", m.cur, Elements(obj), 0, m.pc + 3,
                            code[m.pc + 2].v[1]))
                 EXCEPT !.log = Append(@, Event("each", m.cur, 0,
                                                code[m.pc + 2].v[1], Undef))],
             1)

\* each(obj, varName, locals, fn) for the value obj
EachCall(code, m, obj) ==
    IF obj.k \in {"undefined", "null"} \/ obj \in {ArrV(<<>>), ObjV(<<>>)}
    THEN Goto(m, Close(code, m.pc + 3, 1) + 1)
    ELSE IF obj.k \in {"array", "object"}
    THEN Iteration(
             [Push(m, Frame("each", m.cur, Elements(obj), 0, m.pc + 3,
                            code[m.pc + 2].v[1]))
                 EXCEPT !.log = Append(@, Event("each", m.cur, 0,
                                                code[m.pc + 2].v[1], Undef))],
             1)
    ELSE [m EXCEPT !.err = "Non-iterable object"]

\* the end of the callback of each: the next element, or each returns
EachEnd(m) ==
    IF m.stack[1].pos < Len(m.stack[1].items)
    THEN Iteration(m, m.stack[1].pos + 1)
    ELSE Leave(m, m.pc + 1)

\* one statement of the code, or the end of a body
Statement(code, exprs, m) ==
    CASE code[m.pc].t = ";" -> Goto(m, m.pc + 1)
      [] code[m.pc].t = "out.push(" -> OutPush(code, exprs, m)
      [] code[m.pc].t = "$$[](locals)" -> Goto(m, m.pc + 1)
      [] code[m.pc].t = "locals.=" ->
            Goto(Assign(m, code[m.pc].v[1],
                        Eval(exprs, code[m.pc + 1].n, m), "var"),
                 m.pc + 2)
      [] code[m.pc].t = "(function(locals){" -> EnterScoped(m)
      [] code[m.pc].t = "})(Object.create(locals))" -> Leave(m, m.pc + 1)
      [] code[m.pc].t = "if (" -> IfStatement(code, exprs, m)
      [] code[m.pc].t = " else " -> Goto(m, m.pc + 1)
      [] code[m.pc].t = "else " ->
            Goto(Push(m, Frame("else", m.cur, <<>>, 0, 0, "")), m.pc + 2)
      [] code[m.pc].t = "}" ->
            IF Head(m.stack).kind = "if"
            THEN Leave(m, SkipElse(code, m.pc + 1))
            ELSE Leave(m, m.pc + 1)
      [] code[m.pc].t = "each(" ->
            EachCall(code, m, Eval(exprs, code[m.pc + 1].n, m))
      [] code[m.pc].t = "})" -> EachEnd(m)

\* the statements in turn, until the code ends or one throws
RECURSIVE Run(_, _, _)
Run(code, exprs, m) ==
    IF m.err # "" \/ m.pc > Len(code) THEN m
    ELSE Run(code, exprs, Statement(code, exprs, m))

\* locals = extend(globals, locals): the keys of the data are copied to the
\* table globals, which is the top-level scope
TopLevelShared(m) ==
    [m EXCEPT !.heap[1].props = extend(<<m.heap[1].props, m.heap[2].props>>),
              !.cur = 1]

\* locals = extend({}, globals, locals): the top-level scope is a new object
TopLevel(m) ==
    [m EXCEPT !.heap = Append(@, Obj(0, extend(<<<<>>, m.heap[1].props,
                                                m.heap[2].props>>))),
              !.cur = Len(m.heap) + 1]

\* the renderer called with data: var out = [], the top-level scope, the
\* code; object 1 is the table globals, object 2 the caller's data
Renderer(code, exprs, globalsTable, data) ==
    Run(code, exprs,
        TopLevel([out |-> <<>>, heap |-> <<Obj(0, globalsTable), Obj(0, data)>>,
                  cur |-> 0, stack |-> <<>>, log |-> <<>>, err |-> "",
                  pc |-> 1]))

----------------------------------------------------------------------------
(* Templates *)

pR == <<"r">>
pA == <<"a">>
pB == <<"b">>
pC == <<"c">>
pL == <<"l">>
pT == <<"t">>
pUpX == <<".", ".", "/", "x">>
pUpY == <<".", ".", "/", "y">>

Ok(content) == [resp |-> "resolve", content |-> content]
Fails == [resp |-> "reject", content |-> NoContent]
Throws == [resp |-> "throw", content |-> NoContent]

\* a file included by two files, one of which the root reaches through
\* another include; it inlines a file unescaped
FsShared ==
    [root |-> pR,
     files |->
        (pR :> Ok(Template("r", <<Include(pA, <<>>), Include(pB, <<>>)>>)))
     @@ (pA :> Ok(Template("a", <<Str("A"), Expr("x", TRUE),
                                  Inline(<<"!">> \o pT)>>)))
     @@ (pB :> Ok(Template("b", <<Expr("y", TRUE), Include(pA, <<>>)>>)))
     @@ (pT :> Ok(Raw("<T>")))]

\* a layout with blocks, included with two definitions of the same block;
\* the body of the first is an inline (slow) or plain text
FsDefs(m1, m2, slow) ==
    [root |-> pR,
     files |->
        (pR :> Ok(Template("r", <<Include(pL,
                    <<Def(m1, "b", <<IF slow THEN Inline(pT) ELSE Str("1")>>),
                      Def(m2, "b", <<Str("2")>>)>>)>>)))
     @@ (pL :> Ok(Template("l", <<Str("<"), Block("b", <<Str("D")>>),
                                  Comment("k"), Block("c", <<Str("E")>>)>>)))
     @@ (pT :> Ok(Raw("T")))]

\* a definition given to one include, and the same block reached through
\* a nested include and through a sibling include
FsScope ==
    [root |-> pR,
     files |->
        (pR :> Ok(Template("r", <<Include(pA, <<Def("def", "b",
                                                   <<Str("X")>>)>>),
                                  Include(pC, <<>>)>>)))
     @@ (pA :> Ok(Template("a", <<Block("b", <<>>), Include(pC, <<>>)>>)))
     @@ (pC :> Ok(Template("c", <<Block("b", <<Str("DC")>>)>>)))]

\* an include whose file is missing beside an include with a nested include
FsFail ==
    [root |-> pR,
     files |->
        (pR :> Ok(Template("r", <<Include(pA, <<>>), Include(pB, <<>>)>>)))
     @@ (pA :> Fails)
     @@ (pB :> Ok(Template("b", <<Include(pC, <<>>)>>)))
     @@ (pC :> Ok(Template("c", <<Str("C")>>)))]

\* an included file that does not parse
FsParse ==
    [root |-> pR,
     files |->
        (pR :> Ok(Template("r", <<Str("R"), Include(pA, <<>>)>>)))
     @@ (pA :> Ok(Broken("<if>")))]

\* an include and an inline of files above the root
FsOutside ==
    [root |-> pR,
     files |->
        (pR :> Ok(Template("r", <<Include(pUpX, <<>>), Inline(pUpY)>>)))
     @@ (pUpX :> Ok(Raw("X")))
     @@ (pUpY :> Ok(Raw("Y")))]

\* a loader that throws instead of returning a promise
FsThrow ==
    [root |-> pR,
     files |->
        (pR :> Ok(Template("r", <<Include(pA, <<>>)>>)))
     @@ (pA :> Throws)]

\* a loader that throws for the root itself
FsThrowRoot == [root |-> pR, files |-> (pR :> Throws)]

\* nested layouts: the page r includes the layout m with definitions of b
\* and c, m includes the layout l with a definition of b whose body holds
\* the block b again
FsNested ==
    [root |-> pR,
     files |->
        (pR :> Ok(Template("r", <<Include(<<"m">>,
                    <<Def("def", "b", <<Str("P")>>),
                      Def("def", "c", <<Str("Q")>>)>>)>>)))
     @@ (<<"m">> :> Ok(Template("m", <<Include(pL,
                    <<Def("def", "b", <<Str("<s>"), Block("b", <<>>),
                                        Str("</s>")>>)>>)>>)))
     @@ (pL :> Ok(Template("l", <<Block("b", <<Str("D")>>),
                                  Block("c", <<Str("E")>>)>>)))]

\* a definition whose body includes a file with a block, beside a
\* definition of that block whose body is an inline (slow) or plain text
FsDefInclude(slow) ==
    [root |-> pR,
     files |->
        (pR :> Ok(Template("r", <<Include(pL,
                    <<Def("def", "b",
                          <<IF slow THEN Inline(pT) ELSE Str("1")>>),
                      Def("def", "c", <<Include(pA, <<>>)>>)>>)>>)))
     @@ (pL :> Ok(Template("l", <<Block("c", <<>>)>>)))
     @@ (pA :> Ok(Template("a", <<Block("b", <<Str("DA")>>)>>)))
     @@ (pT :> Ok(Raw("T")))]

\* variables assigned at the top level, in an included file and in the arms
\* of an if, and read after each of them
FsVars ==
    [root |-> pR,
     files |->
        (pR :> Ok(Template("r",
                <<Expr("Math", FALSE), Expr("v", TRUE),
                  Var("v", "'o'"), Expr("v", TRUE), Include(pA, <<>>),
                  Expr("v", TRUE),
                  If(<<When("t", <<Var("v", "'i'"), Expr("v", TRUE)>>)>>,
                     <<Otherwise(<<Var("v", "'e'"), Expr("v", FALSE)>>)>>),
                  Expr("v", TRUE),
                  Var("Math", "'m'"), Expr("Math", FALSE)>>)))
     @@ (pA :> Ok(Template("a", <<Expr("v", TRUE), Var("v", "'a'"),
                                  Expr("v", TRUE)>>)))]

\* a loop with a variable assigned in its body and a nested loop of the
\* same name
FsEach ==
    [root |-> pR,
     files |->
        (pR :> Ok(Template("r",
                <<Var("w", "'o'"),
                  Each("x", "xs",
                       <<Expr("w", TRUE), Var("w", "'i'"), Expr("w", TRUE),
                         Expr("x", TRUE),
                         Each("x", "ys", <<Expr("x", TRUE),
                                           Expr("x_index", TRUE)>>),
                         Expr("x", TRUE), Expr("x_last", TRUE)>>),
                  Expr("w", TRUE), Expr("x", TRUE),
                  Expr("x_index", TRUE)>>)))]

\* templates in two directories: the page d/r includes the layout e/l with
\* a definition whose body inlines t and includes a; the layout includes c,
\* which inlines u
FsDirs ==
    [root |-> <<"d", "/", "r">>,
     files |->
        (<<"d", "/", "r">> :> Ok(Template("r", <<Include(<<"e", "/", "l">>,
                    <<Def("def", "b", <<Inline(pT), Include(pA, <<>>)>>)>>)>>)))
     @@ (<<"d", "/", "e", "/", "l">> :> Ok(Template("l", <<Block("b", <<>>), Include(pC, <<>>)>>)))
     @@ (<<"d", "/", "e", "/", "c">> :> Ok(Template("c", <<Inline(<<"u">>)>>)))
     @@ (<<"d", "/", "e", "/", "u">> :> Ok(Raw("U")))
     @@ (<<"d", "/", "t">> :> Ok(Raw("T")))
     @@ (<<"d", "/", "a">> :> Ok(Raw("DA")))]

\* the root is named with a leading '/': compile('/r')
FsRootSlash ==
    [root |-> <<"/">> \o pR,
     files |->
        (pR :> Ok(Template("r", <<Include(pA, <<>>), Inline(<<"/">> \o pT)>>)))
     @@ (pA :> Ok(Raw("A")))
     @@ (pT :> Ok(Raw("T")))]

\* ifs of several arms: with and without an otherwise, and conditions that
\* hold together
FsIf ==
    [root |-> pR,
     files |->
        (pR :> Ok(Template("r",
                <<If(<<When("t", <<Str("A")>>), When("xs", <<Str("B")>>),
                       When("v", <<Str("C")>>)>>,
                     <<Otherwise(<<Str("E")>>)>>),
                  If(<<When("t", <<Str("F")>>), When("ys", <<Str("G")>>)>>,
                     <<>>),
                  If(<<When("z", <<Str("H")>>)>>,
                     <<Otherwise(<<Str("I")>>)>>),
                  If(<<When("v", <<>>)>>, <<Otherwise(<<Str("J")>>)>>)>>)))]

\* loops over an object, an array, and collections that may be null or
\* not iterable, with the loop variables written out
FsKinds ==
    [root |-> pR,
     files |->
        (pR :> Ok(Template("r",
                <<Each("k", "os", <<Expr("k", TRUE), Expr("k_key", TRUE),
                                    Expr("k_index", TRUE),
                                    Expr("k_last", TRUE),
                                    Expr("k_has_next", TRUE)>>),
                  Str("|"),
                  Each("x", "xs", <<Expr("x", TRUE), Expr("x_key", TRUE),
                                    Expr("x_index", TRUE),
                                    Expr("x_last", TRUE),
                                    Expr("x_has_next", TRUE)>>),
                  Str("|"),
                  Each("n", "ns", <<Str("N")>>),
                  Str("."),
                  Each("s", "ss", <<Str("S")>>),
                  Str("!")>>)))]

\* comments between text and expressions, in the bodies of a loop and of
\* an if, an empty comment, and a body that is a comment only
FsComments ==
    [root |-> pR,
     files |->
        (pR :> Ok(Template("r",
                <<Comment("c"), Str("a"), Comment("d"), Expr("v", TRUE),
                  Each("x", "xs", <<Comment("e"), Expr("x", TRUE)>>),
                  Comment(""),
                  If(<<When("t", <<Comment("f")>>)>>,
                     <<Otherwise(<<Str("g"), Comment("h")>>)>>),
                  Str("z")>>)))]

\* an include with Var children, one of which reads the other; the file
\* included reads both and assigns one, the root reads both after it
FsIncludeVars ==
    [root |-> pR,
     files |->
        (pR :> Ok(Template("r",
                <<Expr("v", TRUE),
                  Include(pA, <<Var("v", "'i'"), Var("w", "v")>>),
                  Expr("v", TRUE), Expr("w", TRUE)>>)))
     @@ (pA :> Ok(Template("a", <<Expr("v", TRUE), Expr("w", TRUE),
                                  Var("v", "'a'"), Expr("v", TRUE)>>)))]

\* a layout whose block b has a default body with an include and an inline,
\* included with a definition of mode def that replaces the body
FsDefault(content) ==
    [root |-> pR,
     files |->
        (pR :> Ok(Template("r", <<Include(pL,
                    <<Def("def", "b", <<Str("1")>>)>>)>>)))
     @@ (pL :> Ok(Template("l", <<Block("b",
                    <<Str("D"), Include(pA, <<>>), Inline(pT)>>)>>)))
     @@ (pA :> content)
     @@ (pT :> Ok(Raw("T")))]

DefaultScenarios ==
    {FsDefault(content) :
        content \in {Ok(Template("a", <<Str("A")>>)), Fails,
                     Ok(Broken("<if>"))}}

FileSystems ==
    {FsIf, FsKinds, FsComments, FsIncludeVars, FsShared, FsScope, FsFail,
     FsParse, FsOutside, FsThrow, FsThrowRoot, FsNested,
     FsVars, FsEach, FsDirs, FsRootSlash}
    \cup DefaultScenarios
    \cup {FsDefInclude(slow) : slow \in BOOLEAN}
    \cup {FsDefs(m1, m2, slow) : m1 \in Modes, m2 \in Modes, slow \in BOOLEAN}

----------------------------------------------------------------------------
(* createCompiler(load, options), compile(file) and the event loop *)

\* the code with every expression index replaced by the expression it denotes
Resolved(code, exprs) ==
    [i \in 1..Len(code) |->
        IF code[i].t = "$$[](locals)"
        THEN IF code[i].n < Len(exprs)
             THEN Tok(code[i].t, <<exprs[code[i].n + 1]>>, 0)
             ELSE Tok(code[i].t, <<"undefined">>, 0)
        ELSE code[i]]

Settled == queue = <<>> /\ \A i \in 1..Len(loads) : loads[i].state # "pending"

\* what the current compile() call has come to
Outcome ==
    [state |-> IF thrown # "" THEN "threw" ELSE promises[compileP].state,
     code  |-> IF thrown = "" /\ promises[compileP].state = "fulfilled"
               THEN Resolved(promises[compileP].value.code, expressions)
               ELSE <<>>,
     error |-> IF thrown # "" THEN thrown
               ELSE promises[compileP].value.err]

Apply(s) ==
    /\ expressions' = s.expressions
    /\ cachedNodes' = s.cachedNodes
    /\ asts' = s.asts
    /\ ctxs' = s.ctxs
    /\ statements' = s.statements
    /\ loads' = s.loads
    /\ promises' = s.promises
    /\ alls' = s.alls
    /\ queue' = s.queue

\* localPath has not been called on its own
NoHtmlCall == [html |-> <<>>, result |-> <<>>, done |-> FALSE]

NoPathCall ==
    [relativeTo |-> <<>>, file |-> <<>>, result |-> <<>>, done |-> FALSE]

Init ==
    /\ fs \in FileSystems
    /\ stripComments \in BOOLEAN
    /\ compiles = 0
    /\ results = <<>>
    /\ file = <<>>
    /\ expressions = <<>>
    /\ cachedNodes = <<>>
    /\ asts = <<>>
    /\ ctxs = <<>>
    /\ statements = <<>>
    /\ loads = <<>>
    /\ promises = <<>>
    /\ alls = <<>>
    /\ queue = <<>>
    /\ compileP = 0
    /\ thrown = ""
    /\ globals = Globals
    /\ renders = <<>>
    /\ pathCall = NoPathCall
    /\ htmlCall = NoHtmlCall
    /\ jobCompiles = 0

\* job.compile() on a Job that begins with the cache of the Job before it
CompileJobCached(f) ==
    ThenUnlessThrown(
        processFile([NewJob EXCEPT
                        !.cachedNodes = cachedNodes,
                        !.asts = asts,
                        !.ctxs = <<[parent |-> 0, file |-> f,
                                    defs |-> [n \in BlockNames |-> NoDef]]>>,
                        !.statements = << <<>> >>],
                    f, 1),
        [NoCont EXCEPT !.kind = "compiled"])

\* job.compile() on a new Job for the file f
CompileJob(f) ==
    ThenUnlessThrown(
        processFile([NewJob EXCEPT
                        !.ctxs = <<[parent |-> 0, file |-> f,
                                    defs |-> [n \in BlockNames |-> NoDef]]>>,
                        !.statements = << <<>> >>],
                    f, 1),
        [NoCont EXCEPT !.kind = "compiled"])

\* what compile(file) leaves: the job, and the promise returned or the
\* exception thrown
Install(s, f) ==
    /\ file' = f
    /\ thrown' = s.exc
    /\ compileP' = IF s.exc # "" THEN 0 ELSE s.ret.p
    /\ Apply(s)

\* compile(file) of createCompiler: a new Job, then job.compile()
Compile ==
    /\ compiles < MaxCompiles
    /\ Settled
    /\ compiles' = compiles + 1
    /\ results' = IF compiles = 0 THEN results ELSE Append(results, Outcome)
    /\ Install(CompileJob(normalize(fs.root)), normalize(fs.root))
    /\ globals' = Globals
    /\ renders' = <<>>
    /\ jobCompiles' = 1
    /\ UNCHANGED <<fs, stripComments, pathCall, htmlCall>>

\* the event loop runs the oldest job of the microtask queue
RunMicrotask ==
    /\ queue # <<>>
    /\ Apply(RunJob([JobState EXCEPT !.queue = Tail(queue)], Head(queue)))
    /\ UNCHANGED <<fs, stripComments, compiles, results, file, compileP,
                   thrown, globals, renders, pathCall, htmlCall,
                   jobCompiles>>

\* the promise a loader call returned settles
LoadSettle(i) ==
    /\ loads[i].state = "pending"
    /\ Apply(IF LoaderResponse(loads[i].file).resp = "resolve"
             THEN Settle([JobState EXCEPT !.loads[i].state = "resolved"],
                         loads[i].p, "fulfilled",
                         ContentVal(LoaderResponse(loads[i].file).content))
             ELSE Settle([JobState EXCEPT !.loads[i].state = "rejected"],
                         loads[i].p, "rejected", ErrorVal(LoadError)))
    /\ UNCHANGED <<fs, stripComments, compiles, results, file, compileP,
                   thrown, globals, renders, pathCall, htmlCall,
                   jobCompiles>>

\* the data the caller renders with
DataSet ==
    {("xs" :> ArrV(<<StrV("1"), StrV("2")>>)) @@ ("ys" :> ArrV(<<StrV("3")>>))
        @@ ("t" :> BoolV(TRUE)),
     ("xs" :> ArrV(<<StrV("4")>>)) @@ ("v" :> StrV("5"))
        @@ ("os" :> ObjV(<<Entry("a", StrV("1")), Entry("B", StrV("0")),
                           Entry("b", StrV("2"))>>)),
     ("os" :> ObjV(<<Entry("b", StrV("2")), Entry("a", StrV("1")),
                     Entry("B", StrV("0"))>>)) @@ ("ns" :> Null)
        @@ ("xs" :> ArrV(<<>>)),
     ("os" :> ObjV(<<Entry("c", StrV("3"))>>)) @@ ("ss" :> StrV("s")),
     ("ss" :> BoolV(FALSE)) @@ ("Math" :> StrV("u"))}

\* what a call of the renderer leaves: the table globals as the call left
\* it, and the call with the array out, the error thrown ("": none) and
\* whether return out.join("") was reached
Rendered(m, data) ==
    /\ globals' = m.heap[1].props
    /\ renders' = Append(renders, [data |-> data, out |-> m.out,
                                   err |-> m.err, log |-> m.log,
                                   heap |-> m.heap,
                                   returned |-> m.err = ""])

\* fn(data), for the renderer fn the compile promise was fulfilled with
Render ==
    /\ compileP # 0
    /\ promises[compileP].state = "fulfilled"
    /\ Len(renders) < MaxRenders
    /\ \E data \in DataSet :
          Rendered(Renderer(promises[compileP].value.code, expressions,
                            globals, data),
                   data)
    /\ UNCHANGED <<fs, stripComments, compiles, results, file, expressions,
                   cachedNodes, asts, ctxs, statements, loads, promises,
                   alls, queue, compileP, thrown, pathCall,
                   htmlCall, jobCompiles>>

Next ==
    \/ Compile
    \/ RunMicrotask
    \/ \E i \in 1..Len(loads) : LoadSettle(i)
    \/ Render

Spec == Init /\ [][Next]_vars

----------------------------------------------------------------------------
(* localPath(relativeTo, file) called on its own *)

\* the strings of at most n characters over a name, '.' and '/'
PathsUpTo(n) == UNION {[1..k -> {"a", ".", Slash}] : k \in 0..n}

\* no job is running; the arguments are any two paths; the relativeTo of
\* the code is '' or the file of a context
InitPath ==
    /\ fs = FsShared
    /\ stripComments = FALSE
    /\ compiles = 0
    /\ results = <<>>
    /\ file = <<>>
    /\ expressions = <<>>
    /\ cachedNodes = <<>>
    /\ asts = <<>>
    /\ ctxs = <<>>
    /\ statements = <<>>
    /\ loads = <<>>
    /\ promises = <<>>
    /\ alls = <<>>
    /\ queue = <<>>
    /\ compileP = 0
    /\ thrown = ""
    /\ globals = Globals
    /\ renders = <<>>
    /\ pathCall \in [relativeTo : PathsUpTo(MaxParentLen),
                     file : PathsUpTo(MaxPathLen),
                     result : {<<>>}, done : {FALSE}]
    /\ htmlCall = NoHtmlCall
    /\ jobCompiles = 0

\* the call returns
LocalPathCall ==
    /\ ~pathCall.done
    /\ pathCall' = [pathCall EXCEPT
                       !.result = localPath(pathCall.relativeTo, pathCall.file),
                       !.done = TRUE]
    /\ UNCHANGED <<fs, stripComments, compiles, results, file, expressions,
                   cachedNodes, asts, ctxs, statements, loads, promises,
                   alls, queue, compileP, thrown, globals, renders,
                   htmlCall, jobCompiles>>

SpecPath == InitPath /\ [][LocalPathCall]_vars

----------------------------------------------------------------------------
(* job.compile() called again on the Job it was called on *)

\* job.compile() on the Job as it is: a new root context, and processFile
\* with the expressions and the cache the Job has
CompileJobAgain(f) ==
    ThenUnlessThrown(
        processFile([JobState EXCEPT
                        !.ctxs = Append(@, [parent |-> 0, file |-> f,
                                            defs |-> [n \in BlockNames |->
                                                         NoDef]]),
                        !.statements = Append(@, <<>>)],
                    f, Len(ctxs) + 1),
        [NoCont EXCEPT !.kind = "compiled"])

\* a caller that holds the Job calls compile() once more, when the call
\* before has come to its end
CompileAgain ==
    /\ jobCompiles \in 1..(MaxJobCompiles - 1)
    /\ Settled
    /\ jobCompiles' = jobCompiles + 1
    /\ results' = Append(results, Outcome)
    /\ Install(CompileJobAgain(file), file)
    /\ renders' = <<>>
    /\ UNCHANGED <<fs, stripComments, compiles, globals, pathCall, htmlCall>>

\* the templates the Job is held for
InitReuse == Init /\ fs \in {FsShared, FsFail}

NextReuse ==
    \/ Compile
    \/ CompileAgain
    \/ RunMicrotask
    \/ \E i \in 1..Len(loads) : LoadSettle(i)
    \/ Render

SpecReuse == InitReuse /\ [][NextReuse]_vars

----------------------------------------------------------------------------
(* Compiles run to their end: templates that include themselves *)

\* a template that includes itself (direct), or a template that includes
\* one that includes it
FsCycle(direct) ==
    [root |-> pR,
     files |->
        (pR :> Ok(Template("r", <<Str("R"),
                                  Include(IF direct THEN pR ELSE pA, <<>>)>>)))
     @@ (pA :> Ok(Template("a", <<Str("A"), Include(pR, <<>>)>>)))]

\* the templates compiled: with a cycle, and without one
InitLive ==
    /\ fs \in {FsCycle(TRUE), FsCycle(FALSE), FsShared, FsFail, FsParse}
    /\ stripComments = FALSE
    /\ compiles = 0
    /\ results = <<>>
    /\ file = <<>>
    /\ expressions = <<>>
    /\ cachedNodes = <<>>
    /\ asts = <<>>
    /\ ctxs = <<>>
    /\ statements = <<>>
    /\ loads = <<>>
    /\ promises = <<>>
    /\ alls = <<>>
    /\ queue = <<>>
    /\ compileP = 0
    /\ thrown = ""
    /\ globals = Globals
    /\ renders = <<>>
    /\ pathCall = NoPathCall
    /\ htmlCall = NoHtmlCall
    /\ jobCompiles = 0

\* the event loop, followed as long as the job has fewer than MaxContexts
\* contexts
RunMicrotaskBounded == Len(ctxs) < MaxContexts /\ RunMicrotask

\* some pending call of the loader settles
LoadSettles == \E i \in 1..Len(loads) : LoadSettle(i)

NextLive ==
    \/ Compile
    \/ RunMicrotaskBounded
    \/ LoadSettles

\* the event loop does not stop while a job is queued: weak fairness of
\* RunMicrotaskBounded, which is enabled exactly when the queue is not
\* empty and the bound is not reached, and then changes the queue
FairMicrotasks ==
    \/ []<>(queue = <<>> \/ Len(ctxs) >= MaxContexts)
    \/ []<><<RunMicrotaskBounded>>_vars

\* the event loop runs the jobs queued, and every call of the loader
\* settles
SpecLive ==
    /\ InitLive
    /\ [][NextLive]_vars
    /\ FairMicrotasks
    /\ WF_vars(LoadSettles)

----------------------------------------------------------------------------
(* escapeHtml(html) called on its own *)

\* the strings of at most n characters over the four characters escapeHtml
\* replaces, a letter and ';'
HtmlUpTo(n) ==
    UNION {[1..k -> {"&", "<", ">", "\"", "a", ";"}] : k \in 0..n}

\* no job is running; the argument is any string
InitHtml ==
    /\ fs = FsShared
    /\ stripComments = FALSE
    /\ compiles = 0
    /\ results = <<>>
    /\ file = <<>>
    /\ expressions = <<>>
    /\ cachedNodes = <<>>
    /\ asts = <<>>
    /\ ctxs = <<>>
    /\ statements = <<>>
    /\ loads = <<>>
    /\ promises = <<>>
    /\ alls = <<>>
    /\ queue = <<>>
    /\ compileP = 0
    /\ thrown = ""
    /\ globals = Globals
    /\ renders = <<>>
    /\ pathCall = NoPathCall
    /\ htmlCall \in [html : HtmlUpTo(MaxHtmlLen), result : {<<>>},
                     done : {FALSE}]
    /\ jobCompiles = 0

\* the call returns
EscapeHtmlCall ==
    /\ ~htmlCall.done
    /\ htmlCall' = [htmlCall EXCEPT !.result = escapeHtml(htmlCall.html),
                                    !.done = TRUE]
    /\ UNCHANGED <<fs, stripComments, compiles, results, file, expressions,
                   cachedNodes, asts, ctxs, statements, loads, promises,
                   alls, queue, compileP, thrown, globals, renders,
                   pathCall, jobCompiles>>

SpecHtml == InitHtml /\ [][EscapeHtmlCall]_vars

----------------------------------------------------------------------------
(* Properties *)

Promises == 1..Len(promises)
Loads == 1..Len(loads)

\* the value an element handed to Promise.all came to
Final(e) == IF e.isPromise THEN promises[e.p].value ELSE e.val

\* the root context, or the context of an include, with all it inherits from
RECURSIVE Chain(_)
Chain(ctx) ==
    IF ctx = 0 THEN {} ELSE {ctx} \cup Chain(ctxs[ctx].parent)

\* a loaded template that the grammar rejects
ParseFailed ==
    \E q \in Promises :
        /\ promises[q].cont.kind = "file"
        /\ promises[promises[q].src].state = "fulfilled"
        /\ ~promises[promises[q].src].value.content.valid

CompileResolved == compileP # 0 /\ promises[compileP].state = "fulfilled"
CompileRejected == compileP # 0 /\ promises[compileP].state = "rejected"

\* C1: within one compile the caller's loader is invoked at most once for
\* every normalized path, however the pending loads complete.
C1_LoaderOncePerPath ==
    \A i, j \in Loads : loads[i].file = loads[j].file => i = j

\* C2: for fixed templates and loader responses, every compile that resolves
\* yields the same code (expression indices read as the expressions they
\* denote), whatever the order in which the pending loads completed.
C2_SameCodeEveryOrder ==
    \A k \in 1..Len(results) :
        (Settled /\ CompileResolved /\ results[k].state = "fulfilled")
            => Outcome.code = results[k].code

\* C3: the code of a node list is the join, in textual order, of what each
\* node came to, whatever the order in which the nodes settled; a plain run
\* contributes the push of its text at its own position.
C3_TextualOrder ==
    \A q \in Promises :
        (promises[q].cont.kind = "join" /\ promises[q].state = "fulfilled")
        => LET c == promises[q].cont
               nodes == ChildrenAt(asts[c.ast], c.addr)
               elems == alls[promises[promises[q].src].cont.all].elems
           IN  /\ Len(elems) = Len(nodes)
               /\ promises[q].value.code =
                      JoinCode([i \in 1..Len(elems) |->
                                   AsString(Final(elems[i]))])
               /\ \A i \in 1..Len(nodes) :
                      nodes[i].type = "string"
                          => Final(elems[i]).code =
                                 bufferText(<<nodes[i].text>>)

\* a node list has been joined in which a node that needed a promise comes
\* before a node whose code was at hand at once
C3_Witness ==
    \E q \in Promises :
        /\ promises[q].cont.kind = "join"
        /\ promises[q].state = "fulfilled"
        /\ LET elems == alls[promises[promises[q].src].cont.all].elems
           IN  \E i, j \in 1..Len(elems) :
                   i < j /\ elems[i].isPromise /\ ~elems[j].isPromise

\* C4: a resolved path that begins with '../' is never handed to the
\* caller's loader.
C4_NoLoadOutsideScope ==
    \A i \in Loads : ~StartsWith(loads[i].file, <<".", ".", "/">>)

\* C5: compile resolves only if every loader call and every parse of the
\* composition succeeded; once all is settled, a failed load or parse means
\* the compile promise is rejected.
C5_ResolveOnlyIfAllSucceeded ==
    /\ CompileResolved =>
           /\ \A i \in Loads : loads[i].state = "resolved"
           /\ ~ParseFailed
    /\ (Settled /\ compileP # 0
            /\ (ParseFailed \/ \E i \in Loads : loads[i].state = "rejected"))
           => CompileRejected

\* a compile has been rejected after the load or the parse of an included
\* file failed
C5_Witness ==
    /\ Settled
    /\ CompileRejected
    /\ \/ ParseFailed
       \/ \E i \in Loads : i > 1 /\ loads[i].state = "rejected"

\* C6: once a loader invocation of a compile has failed, that compile
\* invokes the loader no more.
C6_NoLoadAfterFailure ==
    [][((\E i \in Loads : loads[i].state = "rejected")
            /\ compiles' = compiles)
           => Len(loads') = Len(loads)]_vars

\* C7: a block with default body D emits X for a definition X of mode def,
\* D;X for append, X;D for prepend, and D when no definition was found.
C7_BlockMergeLaws ==
    \A q \in Promises :
        (promises[q].cont.kind = "block" /\ promises[q].state = "fulfilled")
        => LET D == promises[promises[q].src].value.code
               def == promises[q].cont.def
               X == def.code
           IN  promises[q].value.code =
                   CASE ~def.found -> D
                     [] def.found /\ def.mode = "def" -> X
                     [] def.found /\ def.mode = "append" ->
                            D \o <<Semi>> \o X
                     [] def.found /\ def.mode = "prepend" ->
                            X \o <<Semi>> \o D

\* a block with a default body has been merged with an appended definition
C7_Witness ==
    \E q \in Promises :
        /\ promises[q].cont.kind = "block"
        /\ promises[q].state = "fulfilled"
        /\ promises[q].cont.def.found
        /\ promises[q].cont.def.mode = "append"
        /\ promises[promises[q].src].value.code # <<>>
        /\ promises[q].cont.def.code # <<>>

\* C8: a Def with body L that meets a stored definition with body O is
\* merged by its own mode: def stores L, append O;L, prepend L;O.
C8_MergeByNewMode ==
    [][(/\ queue # <<>>
        /\ Head(queue).type = "reaction"
        /\ Head(queue).ok
        /\ promises[Head(queue).q].cont.kind = "def"
        /\ promises[Head(queue).q].state = "pending"
        /\ promises'[Head(queue).q].state = "fulfilled")
       => LET c == promises[Head(queue).q].cont
              node == NodeAt(asts[c.ast], c.addr)
              old == ctxs[c.ctx].defs[node.name]
              L == Head(queue).arg.code
              O == old.code
          IN  old.found =>
                  ctxs'[c.ctx].defs[node.name].code =
                      CASE node.mode = "def" -> L
                        [] node.mode = "append" -> O \o <<Semi>> \o L
                        [] node.mode = "prepend" -> L \o <<Semi>> \o O]_vars

\* the definition the Defs named name among the children of an include come
\* to when they are merged one after the other in textual order; the body
\* of the i-th child is what its node list was joined to
RECURSIVE TextualMerge(_, _, _, _)
TextualMerge(nodes, elems, name, n) ==
    IF n = 0 THEN NoDef
    ELSE LET before == TextualMerge(nodes, elems, name, n - 1)
         IN  IF nodes[n].type = "def" /\ nodes[n].name = name
             THEN [found |-> TRUE, mode |-> nodes[n].mode,
                   code |-> MergeDefinition(before,
                       promises[promises[elems[n].p].src].value.code),
                   origin |-> 0]
             ELSE before

\* C9: when the Defs of an include have all been processed, the definition
\* stored for a name is the merge of its Defs in their textual order,
\* whatever the order in which their bodies were finished.
C9_DefsMergedInTextualOrder ==
    \A q \in Promises :
        (/\ promises[q].cont.kind = "includeDefs"
         /\ promises[promises[q].src].state = "fulfilled")
        => LET c == promises[q].cont
               nodes == NodeAt(asts[c.ast], c.addr).nodes
               elems == alls[promises[promises[q].src].cont.all].elems
           IN  \A name \in BlockNames :
                   LET want == TextualMerge(nodes, elems, name, Len(nodes))
                       have == ctxs[c.ctx].defs[name]
                   IN  /\ have.found = want.found
                       /\ have.mode = want.mode
                       /\ have.code = want.code

\* C10: a block resolves only to a definition stored in its own context or
\* in a context that one inherits from, never to one given to a sibling
\* include.
C10_DefVisibleToDescendantsOnly ==
    \A q \in Promises :
        (promises[q].cont.kind = "block" /\ promises[q].cont.def.found)
            => promises[q].cont.def.origin \in Chain(promises[q].cont.ctx)

\* a block under a nested include has resolved to a definition of an outer
\* include, and a block of the same name reached through a sibling include
\* has found none
C10_Witness ==
    \E q1, q2 \in Promises :
        /\ promises[q1].cont.kind = "block"
        /\ promises[q1].cont.def.found
        /\ promises[q1].cont.def.origin # promises[q1].cont.ctx
        /\ promises[q2].cont.kind = "block"
        /\ ~promises[q2].cont.def.found
        /\ NodeAt(asts[promises[q2].cont.ast], promises[q2].cont.addr).name
               = NodeAt(asts[promises[q1].cont.ast],
                        promises[q1].cont.addr).name
        /\ promises[q1].cont.def.origin \notin Chain(promises[q2].cont.ctx)
        /\ ctxs[promises[q1].cont.def.origin].defs[
               NodeAt(asts[promises[q2].cont.ast],
                      promises[q2].cont.addr).name].found

\* the context nearest to ctx on its chain that stores a definition of
\* name, 0 when none does
RECURSIVE Nearest(_, _)
Nearest(name, ctx) ==
    IF ctx = 0 THEN 0
    ELSE IF ctxs[ctx].defs[name].found THEN ctx
    ELSE Nearest(name, ctxs[ctx].parent)

\* the node at addr lies in the body of a Def
InDefBody(ast, addr) ==
    \E k \in 1..(Len(addr) - 1) :
        NodeAt(asts[ast], SubSeq(addr, 1, k)).type = "def"

\* the context was made by an Include that lies in the body of a Def, or
\* descends from such a context
RECURSIVE FromDefBody(_)
FromDefBody(ctx) ==
    IF ctxs[ctx].parent = 0 THEN FALSE
    ELSE \/ \E q \in Promises :
               /\ promises[q].cont.kind = "includeDefs"
               /\ promises[q].cont.ctx = ctx
               /\ InDefBody(promises[q].cont.ast, promises[q].cont.addr)
         \/ FromDefBody(ctxs[ctx].parent)

\* the definition a Block holds is the one of the context start, 0 for none
UsesDefinitionOf(c, start) ==
    LET name == NodeAt(asts[c.ast], c.addr).name
        near == Nearest(name, start)
    IN  IF near = 0 THEN ~c.def.found
        ELSE c.def.found /\ c.def = ctxs[near].defs[name]

FileStarted(ctx) ==
    \E q \in Promises :
        /\ promises[q].cont.ctx = ctx
        /\ \/ promises[q].cont.kind = "file"
           \/ promises[q].cont.kind = "join" /\ promises[q].cont.addr = <<>>

\* the Def children of the Include at addr
DefChildren(ast, addr) ==
    {i \in 1..Len(ChildrenAt(asts[ast], addr)) :
        ChildrenAt(asts[ast], addr)[i].type = "def"}

\* the Def child i of the Include that made ctx has been processed to the
\* end, loads in its body included, and is stored in ctx
DefStored(ast, addr, i, ctx) ==
    \E q \in Promises :
        /\ promises[q].cont.kind = "def"
        /\ promises[q].cont.ast = ast
        /\ promises[q].cont.addr = addr \o <<i>>
        /\ promises[q].cont.ctx = ctx
        /\ promises[q].state = "fulfilled"
        /\ promises[promises[q].src].state = "fulfilled"
        /\ ctxs[ctx].defs[ChildrenAt(asts[ast], addr)[i].name].found

\* C12: the file of an Include is not loaded or processed before every Def
\* child of the Include has been processed completely and stored in the
\* context of the Include
C12_DefsBeforeIncludedFile ==
    \A q \in Promises :
        LET c == promises[q].cont
        IN  (c.kind = "includeDefs" /\ FileStarted(c.ctx))
            => \A i \in DefChildren(c.ast, c.addr) :
                   DefStored(c.ast, c.addr, i, c.ctx)

\* the layout of an Include is being loaded after a Def of the Include
\* whose body had to wait for a load of its own
C12_Witness ==
    \E q \in Promises :
        /\ promises[q].cont.kind = "includeDefs"
        /\ FileStarted(promises[q].cont.ctx)
        /\ DefChildren(promises[q].cont.ast, promises[q].cont.addr) # {}
        /\ \E i \in Loads : loads[i].file = pT /\ loads[i].state = "resolved"
        /\ \E i \in Loads : loads[i].file = pL /\ loads[i].state = "pending"

\* the file attributes of the Inline tags in a list of nodes as the parser
\* returns it, at any depth
RECURSIVE InlineAttributes(_)
InlineAttributes(nodes) ==
    UNION {IF nodes[i].type = "inline" THEN {nodes[i].file}
           ELSE InlineAttributes(nodes[i].nodes) : i \in 1..Len(nodes)}

\* the Inline sites of the template sources: the path each resolves to and
\* whether its file attribute begins with '!'
InlineSites ==
    UNION {{[path |-> localPath(f, IF StartsWith(a, <<"!">>) THEN Tail(a)
                                   ELSE a),
             bang |-> StartsWith(a, <<"!">>)] :
               a \in InlineAttributes(fs.files[f].content.nodes)} :
           f \in DOMAIN fs.files}

\* the path of the loader call that returned the promise p
LoadedPath(p) == loads[CHOOSE i \in Loads : loads[i].p = p].file

\* C13: every time an Inline is composed, from freshly parsed nodes or from
\* the AST cache, its content is emitted unescaped exactly when the file
\* attribute in the template source began with '!'
C13_InlineEscapeFollowsSource ==
    \A q \in Promises :
        promises[q].cont.kind = "inline"
        => \A site \in InlineSites :
               site.path = LoadedPath(promises[q].src)
               => promises[q].cont.escaped = ~site.bang

\* Lexical scoping, read off the templates: an environment maps names to
\* values, a construct that opens a scope works on a copy of it, and the
\* copy is dropped when the construct ends.
RefEval(text, env) ==
    IF text \in DOMAIN ConstantExpressions THEN ConstantExpressions[text]
    ELSE IF text \in DOMAIN env THEN env[text]
    ELSE Undef

\* the environment of one iteration of <each:name> over items
RefBind(env, name, items, pos) ==
    (name :> items[pos]) @@ (name \o "_index" :> NumV(pos - 1))
    @@ (name \o "_key" :> NumV(pos - 1))
    @@ (name \o "_last" :> BoolV(pos = Len(items)))
    @@ (name \o "_has_next" :> BoolV(pos # Len(items))) @@ env

RECURSIVE RefNodes(_, _, _, _), RefNode(_, _, _), RefEach(_, _, _, _, _)

\* the output of the nodes from the i-th on, appended to r.out, and the
\* environment they leave; f is the file the nodes are written in
RefNodes(nodes, i, r, f) ==
    IF i > Len(nodes) THEN r
    ELSE RefNodes(nodes, i + 1, RefNode(nodes[i], r, f), f)

\* the body of an Each for the items from pos on
RefEach(node, items, pos, r, f) ==
    IF pos > Len(items) THEN r
    ELSE RefEach(node, items, pos + 1,
                 [r EXCEPT !.out =
                     RefNodes(node.nodes, 1,
                              [env |-> RefBind(r.env, node.name, items, pos),
                               out |-> r.out], f).out],
                 f)

RefNode(node, r, f) ==
    CASE node.type = "string" ->
            [r EXCEPT !.out = Append(@, [val |-> StrV(node.text),
                                         esc |-> FALSE])]
      [] node.type = "expr" ->
            [r EXCEPT !.out = Append(@,
                [val |-> IF node.escape THEN String(RefEval(node.text, r.env))
                         ELSE Joined(RefEval(node.text, r.env)),
                 esc |-> node.escape])]
      [] node.type = "var" ->
            [r EXCEPT !.env = (node.name :> RefEval(node.text, r.env)) @@ @]
      [] node.type = "include" ->
            [r EXCEPT !.out =
                RefNodes(fs.files[localPath(f, node.file)].content.nodes, 1,
                         r, localPath(f, node.file)).out]
      [] node.type = "if" ->
            LET arms == {i \in 1..Len(node.nodes) :
                            \/ node.nodes[i].type = "otherwise"
                            \/ Truthy(RefEval(node.nodes[i].text, r.env))}
            IN  IF arms = {} THEN r
                ELSE [r EXCEPT !.out =
                        RefNodes(node.nodes[CHOOSE i \in arms :
                                     \A j \in arms : i <= j].nodes,
                                 1, r, f).out]
      [] node.type = "each" ->
            LET obj == RefEval(node.text, r.env)
            IN  IF obj.k = "array" THEN RefEach(node, obj.items, 1, r, f)
                ELSE r

\* what the root template gives for the data under lexical scoping
RefOutput(data) ==
    RefNodes(fs.files[fs.root].content.nodes, 1,
             [env |-> data @@ Globals, out |-> <<>>], fs.root).out

\* C14: a Var assigned in the body of an Include, an If or an Each is not
\* seen by the nodes that follow the construct and leaves the enclosing
\* scope's value of the name as it was, while the body reads the enclosing
\* bindings: every render gives the output of lexical scoping
C14_ScopeIsolation ==
    \A i \in 1..Len(renders) :
        fs \in {FsVars, FsEach}
        => /\ renders[i].err = ""
           /\ renders[i].out = RefOutput(renders[i].data)

\* the template with an include, an if and top-level reads between them,
\* rendered with both arms of the if
C14_Witness ==
    /\ fs = FsVars
    /\ Len(renders) = 2
    /\ [val |-> StrV("i"), esc |-> TRUE] \in
           {renders[1].out[j] : j \in 1..Len(renders[1].out)}
    /\ [val |-> StrV("e"), esc |-> FALSE] \in
           {renders[2].out[j] : j \in 1..Len(renders[2].out)}
    /\ [val |-> StrV("a"), esc |-> TRUE] \in
           {renders[1].out[j] : j \in 1..Len(renders[1].out)}

\* the events of kind ev in the log of a render, as positions of the log
EventsOf(r, ev) == {k \in 1..Len(r.log) : r.log[k].ev = ev}

\* the scopes a read in scope id goes through: id and its prototypes
RECURSIVE ScopeChain(_, _)
ScopeChain(heap, id) ==
    IF id = 0 THEN {} ELSE {id} \cup ScopeChain(heap, heap[id].parent)

Piece(str, esc) == [val |-> StrV(str), esc |-> esc]

\* the pieces of the each template that iteration j over xs gives when each
\* iteration starts from the bindings of the enclosing scope: w is 'o' when
\* the body begins, x is the element before and after the inner loop
RECURSIVE InnerPieces(_, _)
InnerPieces(ys, j) ==
    IF j > Len(ys) THEN <<>>
    ELSE <<[val |-> ys[j], esc |-> TRUE],
           [val |-> NumV(j - 1), esc |-> TRUE]>> \o InnerPieces(ys, j + 1)

RECURSIVE OuterPieces(_, _, _)
OuterPieces(xs, ys, j) ==
    IF j > Len(xs) THEN <<>>
    ELSE <<Piece("o", TRUE), Piece("i", TRUE), [val |-> xs[j], esc |-> TRUE]>>
         \o InnerPieces(ys, 1)
         \o <<[val |-> xs[j], esc |-> TRUE],
              [val |-> BoolV(j = Len(xs)), esc |-> TRUE]>>
         \o OuterPieces(xs, ys, j + 1)

Items(data, name) == IF name \in DOMAIN data THEN data[name].items ELSE <<>>

\* C15: every iteration of an Each body runs in a scope of its own, made
\* for that iteration under the scope the loop binding is written to, which
\* is itself a scope made for the Each: a Var of the body is written to the
\* iteration's scope, the next iteration does not see it, the nodes after
\* the Each see neither the loop binding nor the Var, and an inner Each of
\* the same name leaves the outer element in place
C15_FreshScopePerIteration ==
    \A i \in 1..Len(renders) :
        fs = FsEach =>
          LET r == renders[i]
              iters == EventsOf(r, "iter")
          IN  /\ \A k \in iters :
                    /\ r.log[k].scope # r.log[k].parent
                    /\ \A l \in iters :
                          l < k /\ r.log[l].parent = r.log[k].parent
                          => r.log[l].scope
                                \notin ScopeChain(r.heap, r.log[k].scope)
                    /\ \E e \in EventsOf(r, "each") :
                          e < k /\ r.log[e].scope = r.log[k].parent
              /\ \A e \in EventsOf(r, "each") :
                    \E c \in EventsOf(r, "scope") :
                        c < e /\ r.log[c].scope = r.log[e].scope
              /\ \A b \in EventsOf(r, "bind") :
                    \E e \in EventsOf(r, "each") : r.log[e].scope = r.log[b].scope
              /\ \A v \in EventsOf(r, "var") :
                    r.log[v].val = StrV("i")
                    => \E k \in iters : r.log[k].scope = r.log[v].scope
              /\ r.out = OuterPieces(Items(r.data, "xs"), Items(r.data, "ys"), 1)
                         \o <<Piece("o", TRUE), Piece("undefined", TRUE),
                              Piece("undefined", TRUE)>>

\* an Each of two elements whose body assigns a Var and holds an Each of
\* the same binding name, rendered to the end
C15_Witness ==
    /\ fs = FsEach
    /\ \E i \in 1..Len(renders) :
          /\ Len(Items(renders[i].data, "xs")) = 2
          /\ Cardinality(EventsOf(renders[i], "iter")) = 4
          /\ Cardinality(EventsOf(renders[i], "each")) = 3
          /\ renders[i].err = ""

\* C16: two calls of the renderer with equal data give the same output,
\* a top-level Var of one render, one that shadows the built-in Math
\* included, is not seen by a later render, which reads the built-in (or
\* the caller's Math) and the caller's data, and the table of built-in
\* globals stays as it was
C16_RenderPure ==
    /\ globals = Globals
    /\ \A i, j \in 1..Len(renders) :
          renders[i].data = renders[j].data
          => renders[i].out = renders[j].out /\ renders[i].err = renders[j].err
    /\ fs = FsVars
       => \A i \in 1..Len(renders) :
             /\ renders[i].out[1] =
                   [val |-> IF "Math" \in DOMAIN renders[i].data
                            THEN renders[i].data["Math"]
                            ELSE Builtin("Math"),
                    esc |-> FALSE]
             /\ renders[i].out[2] =
                   [val |-> String(IF "v" \in DOMAIN renders[i].data
                                   THEN renders[i].data["v"] ELSE Undef),
                    esc |-> TRUE]

\* the renderer called twice with the same data, for a template that
\* assigns v and Math at the top level after reading them
C16_Witness ==
    /\ fs = FsVars
    /\ Len(renders) = 2
    /\ renders[1].data = renders[2].data
    /\ renders[2].out[Len(renders[2].out)] = Piece("m", FALSE)
    /\ \E k \in EventsOf(renders[1], "var") :
          renders[1].log[k].name = "Math" /\ renders[1].log[k].scope = 3

\* the paths the loader was called with, in the order of the calls
LoaderCalls == [i \in 1..Len(loads) |-> loads[i].file]

\* C17: once the compile promise is fulfilled no step of that compile, and
\* no call of the renderer, calls the loader: every loader call of the
\* compile is made before
C17_NoLoadAfterResolve ==
    [][CompileResolved /\ compiles' = compiles
       => LoaderCalls' = LoaderCalls]_vars

\* a compile that loaded several files is resolved and its renderer was
\* called more than once
C17_Witness ==
    /\ CompileResolved
    /\ Len(loads) >= 3
    /\ Len(renders) = MaxRenders

\* the file attributes of the Include and Inline tags written in a node
\* list, at any depth; the ! that begins an inline path is a flag
RECURSIVE TagPaths(_)
TagPaths(nodes) ==
    UNION {(IF nodes[i].type = "include" THEN {nodes[i].file}
            ELSE IF nodes[i].type = "inline"
            THEN {IF StartsWith(nodes[i].file, <<"!">>)
                  THEN Tail(nodes[i].file) ELSE nodes[i].file}
            ELSE {})
           \cup TagPaths(nodes[i].nodes) : i \in 1..Len(nodes)}

\* the tags written in the file the loader was asked for in call j
TagsOfLoad(j) ==
    IF loads[j].file \in DOMAIN fs.files
       /\ fs.files[loads[j].file].resp = "resolve"
    THEN TagPaths(fs.files[loads[j].file].content.nodes)
    ELSE {}

\* p taken relative to the directory of the file f
RelativeTo(f, p) == normalize(dirname(f) \o <<Slash>> \o p)

\* C18: a path the loader is asked for is the root, or the path of a tag
\* written in a file loaded before, taken relative to the directory of
\* that file when it does not begin with '/'; and when the compile is
\* resolved every tag of every file loaded has had its path asked for.
\* Paths are compared without the '/' they may begin with.
C18_RelativeToContainingFile ==
    /\ \A i \in 1..Len(loads) :
          \/ i = 1
          \/ \E j \in 1..(i - 1) : \E p \in TagsOfLoad(j) :
                IF StartsWith(p, <<Slash>>)
                THEN StripLeadingSlashes(loads[i].file)
                         = StripLeadingSlashes(normalize(p))
                ELSE StripLeadingSlashes(loads[i].file)
                         = StripLeadingSlashes(RelativeTo(loads[j].file, p))
    /\ CompileResolved
       => \A j \in 1..Len(loads) : \A p \in TagsOfLoad(j) :
             ~StartsWith(p, <<Slash>>)
             => \E i \in 1..Len(loads) :
                   StripLeadingSlashes(loads[i].file)
                       = StripLeadingSlashes(RelativeTo(loads[j].file, p))

\* the page in d, its layout in d/e and the files of the body of the Def
\* and of the layout are all loaded: the Def body from d, the rest from d/e
C18_Witness ==
    /\ fs = FsDirs
    /\ CompileResolved
    /\ {loads[i].file : i \in 1..Len(loads)}
           = {<<"d", "/", "r">>, <<"d", "/", "e", "/", "l">>,
              <<"d", "/", "t">>, <<"d", "/", "a">>,
              <<"d", "/", "e", "/", "c">>, <<"d", "/", "e", "/", "u">>}

\* C19 as stated: for a file that begins with '/', localPath gives
\* normalize(file) without the slashes it begins with, whatever relativeTo
\* is; for any other file it gives
\* normalize(dirname(relativeTo) + '/' + file)
C19_LocalPathEquation ==
    pathCall.done
    => IF StartsWith(pathCall.file, <<Slash>>)
       THEN /\ pathCall.result = StripLeadingSlashes(normalize(pathCall.file))
            /\ \A q \in PathsUpTo(MaxParentLen) :
                  localPath(q, pathCall.file) = pathCall.result
       ELSE pathCall.result =
                normalize(dirname(pathCall.relativeTo) \o <<Slash>>
                          \o pathCall.file)

\* C19, amended: as above for a file that is not empty; for the empty file
\* localPath gives normalize(dirname(relativeTo)), path.join having dropped
\* the empty argument
C19_LocalPathEquationNonEmpty ==
    pathCall.done
    => IF StartsWith(pathCall.file, <<Slash>>)
       THEN /\ pathCall.result = StripLeadingSlashes(normalize(pathCall.file))
            /\ \A q \in PathsUpTo(MaxParentLen) :
                  localPath(q, pathCall.file) = pathCall.result
       ELSE IF pathCall.file = <<>>
       THEN pathCall.result = normalize(dirname(pathCall.relativeTo))
       ELSE pathCall.result =
                normalize(dirname(pathCall.relativeTo) \o <<Slash>>
                          \o pathCall.file)

\* localPath has returned for a relative path that climbs out of the
\* directory of a file in a directory
C19_Witness ==
    /\ pathCall.done
    /\ pathCall.relativeTo = <<"a", "/", "a">>
    /\ pathCall.file = <<".", ".", "/", "a">>
    /\ pathCall.result = <<"a">>

\* C20: every path the caller's loader is called with is normalized and
\* does not begin with '/', whatever root compile was given, a root with a
\* leading '/' included
C20_LoaderPathsLogical ==
    \A i \in 1..Len(loads) :
        /\ ~StartsWith(loads[i].file, <<Slash>>)
        /\ normalize(loads[i].file) = loads[i].file

\* C21: when a call of the loader has failed (an included file is missing)
\* and all is settled, the compile promise is rejected with the loader's error, and the error names
\* the path of a load that failed
C21_LoadErrorAnnotated ==
    (fs = FsFail /\ Settled /\ compileP # 0
        /\ \E i \in Loads : loads[i].state = "rejected")
    => /\ CompileRejected
       /\ promises[compileP].value.kind = "error"
       /\ promises[compileP].value.err = LoadError
       /\ \E i \in Loads :
             /\ loads[i].state = "rejected"
             /\ promises[compileP].value.path = loads[i].file

\* the conditions of the If node, in the order they are written
Conditions(node) ==
    LET ws == SelectSeq(node.nodes, LAMBDA n : n.type = "when")
    IN  [j \in 1..Len(ws) |-> ws[j].text]

\* the first When of the If whose condition is truthy for the data (0: none)
Firing(node, data) ==
    LET hold == {j \in 1..Len(Conditions(node)) :
                    Truthy(RefEval(Conditions(node)[j], data @@ Globals))}
    IN  IF hold = {} THEN 0 ELSE CHOOSE j \in hold : \A k \in hold : j <= k

\* the text of a body of plain runs, as pieces of the output
BodyPieces(nodes) == [j \in 1..Len(nodes) |-> Piece(nodes[j].text, FALSE)]

\* what the If must write: the body of the firing When, else the body of
\* the Otherwise, else nothing
ArmPieces(node, data) ==
    IF Firing(node, data) # 0
    THEN BodyPieces(node.nodes[Firing(node, data)].nodes)
    ELSE IF node.nodes[Len(node.nodes)].type = "otherwise"
    THEN BodyPieces(node.nodes[Len(node.nodes)].nodes)
    ELSE <<>>

\* the conditions the If must evaluate: up to the firing one, or all
Evaluated(node, data) ==
    SubSeq(Conditions(node), 1,
           IF Firing(node, data) # 0 THEN Firing(node, data)
           ELSE Len(Conditions(node)))

RECURSIVE Flatten(_)
Flatten(seqs) == IF seqs = <<>> THEN <<>> ELSE seqs[1] \o Flatten(Tail(seqs))

\* C22: an If writes the body of the first When whose expression is
\* truthy and of no other arm, the body of the Otherwise when no When is
\* truthy and there is one, nothing when there is none; the conditions are
\* evaluated in textual order up to the one that fires and no further
C22_FirstTruthyWhen ==
    \A i \in 1..Len(renders) :
        fs = FsIf =>
          LET r == renders[i]
              ifs == fs.files[fs.root].content.nodes
              whens == SelectSeq(r.log, LAMBDA e : e.ev = "when")
          IN  /\ r.err = ""
              /\ r.out = Flatten([n \in 1..Len(ifs) |-> ArmPieces(ifs[n], r.data)])
              /\ [k \in 1..Len(whens) |-> whens[k].name]
                    = Flatten([n \in 1..Len(ifs) |-> Evaluated(ifs[n], r.data)])

\* the ifs rendered with data for which two conditions of one If hold (t
\* and xs) and with data for which the first does not
C22_Witness ==
    /\ fs = FsIf
    /\ Len(renders) = 2
    /\ renders[1].out = <<Piece("A", FALSE), Piece("F", FALSE),
                          Piece("I", FALSE), Piece("J", FALSE)>>
    /\ renders[2].out = <<Piece("B", FALSE), Piece("I", FALSE)>>

\* the values bound to name by the iterations of a render, in order
Bound(render, name) ==
    LET binds == SelectSeq(render.log,
                           LAMBDA e : e.ev = "bind" /\ e.name = name)
    IN  [i \in 1..Len(binds) |-> binds[i].val]

\* the own keys of an object in ascending order of code unit
Ascending(obj) ==
    LET keys == {obj.items[i].key : i \in DOMAIN obj.items}
    IN  CHOOSE q \in [1..Cardinality(keys) -> keys] :
            /\ \A i, j \in DOMAIN q : i < j => CharCode[q[i]] < CharCode[q[j]]

\* the iterations of a render: the "iter" events under the each of name
Iterations(render, name) ==
    LET eachs == {i \in DOMAIN render.log : render.log[i].ev = "each"
                                            /\ render.log[i].name = name}
    IN  {i \in DOMAIN render.log :
            /\ render.log[i].ev = "iter"
            /\ \E e \in eachs : render.log[i].parent = render.log[e].scope}

\* C23: over an array the body runs once per element in index order; over
\* an object it runs once per own key with the keys in ascending order,
\* whatever the order the keys were inserted in
C23_EachOrdering ==
    fs = FsKinds =>
        /\ \A i \in DOMAIN renders :
            LET r == renders[i]
                os == IF "os" \in DOMAIN r.data THEN r.data["os"]
                      ELSE ObjV(<<>>)
                xs == IF "xs" \in DOMAIN r.data THEN r.data["xs"]
                      ELSE ArrV(<<>>)
            IN  /\ Bound(r, "x") = xs.items
                /\ Bound(r, "x_key") =
                       [j \in 1..Len(xs.items) |-> NumV(j - 1)]
                /\ Cardinality(Iterations(r, "x")) = Len(xs.items)
                /\ Bound(r, "k_key") =
                       [j \in 1..Len(os.items) |-> StrV(Ascending(os)[j])]
                /\ Bound(r, "k") =
                       [j \in 1..Len(os.items) |->
                           Get(os, Ascending(os)[j])]
                /\ Cardinality(Iterations(r, "k")) = Len(os.items)
        /\ \A i, j \in DOMAIN renders :
            /\ "os" \in DOMAIN renders[i].data
            /\ "os" \in DOMAIN renders[j].data
            /\ {renders[i].data["os"].items[n] :
                    n \in DOMAIN renders[i].data["os"].items}
               = {renders[j].data["os"].items[n] :
                    n \in DOMAIN renders[j].data["os"].items}
            => Bound(renders[i], "k_key") = Bound(renders[j], "k_key")

\* the same object rendered twice with its keys inserted in two orders,
\* and an array of two elements rendered
C23_Witness ==
    /\ fs = FsKinds
    /\ Len(renders) = 2
    /\ "os" \in DOMAIN renders[1].data
    /\ "os" \in DOMAIN renders[2].data
    /\ renders[1].data["os"] # renders[2].data["os"]
    /\ Bound(renders[1], "k_key") = <<StrV("B"), StrV("a"), StrV("b")>>
    /\ Bound(renders[2], "k_key") = <<StrV("B"), StrV("a"), StrV("b")>>


\* the five bindings it() makes before the iteration at position i of the
\* log, in the order it makes them
BindingsOf(render, i) == [j \in 1..5 |-> render.log[i - 6 + j]]

\* the iter events before (later: after) position i under the same each
Earlier(render, i) ==
    {j \in DOMAIN render.log : /\ j < i
                               /\ render.log[j].ev = "iter"
                               /\ render.log[j].parent = render.log[i].parent}

Later(render, i) ==
    {j \in DOMAIN render.log : /\ j > i
                               /\ render.log[j].ev = "iter"
                               /\ render.log[j].parent = render.log[i].parent}

\* C24: in every iteration name_index equals name_key, which is the
\* position for an array and the key for an object; name_last is true in
\* the final iteration of the collection and false in every other one, and
\* name_has_next is the negation of name_last
C24_LoopVariables ==
    \A r \in DOMAIN renders :
        \A i \in DOMAIN renders[r].log :
            renders[r].log[i].ev = "iter" =>
                LET b == BindingsOf(renders[r], i)
                    name == b[1].name
                    final == Later(renders[r], i) = {}
                IN  /\ \A j \in 1..5 : b[j].ev = "bind"
                    /\ <<b[2].name, b[3].name, b[4].name, b[5].name>>
                       = <<name \o "_key", name \o "_index",
                           name \o "_last", name \o "_has_next">>
                    /\ b[3].val = b[2].val
                    /\ b[2].val.k \in {"number", "string"}
                    /\ b[2].val.k = "number" =>
                           b[2].val = NumV(Cardinality(Earlier(renders[r], i)))
                    /\ b[4].val = BoolV(final)
                    /\ b[5].val = BoolV(~final)

\* an object of three keys and an array of two elements iterated to the end
C24_Witness ==
    /\ fs = FsKinds
    /\ Len(renders) = 2
    /\ Bound(renders[1], "k_last")
       = <<BoolV(FALSE), BoolV(FALSE), BoolV(TRUE)>>
    /\ Bound(renders[2], "x_last") = <<BoolV(FALSE), BoolV(TRUE)>>
    /\ Bound(renders[2], "x_index") = <<NumV(0), NumV(1)>>


\* the value each is given for the collection called name
Collection(render, name) ==
    IF name \in DOMAIN render.data THEN render.data[name] ELSE Undef

\* C25: each over null or undefined runs the body zero times and raises
\* nothing; each over a value that is neither null nor undefined nor an
\* array nor an object aborts the render with the non-iterable error, and
\* the renderer returns no string
C25_NullAndNonIterable ==
    fs = FsKinds =>
        \A i \in DOMAIN renders :
            LET r == renders[i]
            IN  /\ Collection(r, "ns").k \in {"null", "undefined"}
                /\ Bound(r, "n") = <<>>
                /\ Iterations(r, "n") = {}
                /\ \A j \in DOMAIN r.out : r.out[j].val # StrV("N")
                /\ \E j \in DOMAIN r.out : r.out[j].val = StrV(".")
                /\ IF Collection(r, "ss").k \in {"null", "undefined"}
                   THEN /\ r.err = ""
                        /\ r.returned
                        /\ Iterations(r, "s") = {}
                        /\ r.out[Len(r.out)].val = StrV("!")
                   ELSE /\ Collection(r, "ss").k \notin {"array", "object"}
                        /\ r.err = "Non-iterable object"
                        /\ ~r.returned
                        /\ Iterations(r, "s") = {}

\* one render over a null collection that went on to the end, one over a
\* string and one over false that were aborted
C25_Witness ==
    /\ fs = FsKinds
    /\ Len(renders) = 2
    /\ Collection(renders[1], "ns") = Null
    /\ Collection(renders[1], "ss") = Undef
    /\ renders[1].returned
    /\ Collection(renders[2], "ss") \in {StrV("s"), BoolV(FALSE)}
    /\ ~renders[2].returned


\* the entities escapeHtml writes
Entities ==
    {<<"&", "a", "m", "p", ";">>, <<"&", "l", "t", ";">>,
     <<"&", "g", "t", ";">>, <<"&", "q", "u", "o", "t", ";">>}

\* what one character of the argument is to become
Escaped(c) ==
    IF c = "&" THEN <<"&", "a", "m", "p", ";">>
    ELSE IF c = "<" THEN <<"&", "l", "t", ";">>
    ELSE IF c = ">" THEN <<"&", "g", "t", ";">>
    ELSE IF c = "\"" THEN <<"&", "q", "u", "o", "t", ";">>
    ELSE <<c>>

RECURSIVE EscapedAll(_)
EscapedAll(str) ==
    IF str = <<>> THEN <<>> ELSE Escaped(Head(str)) \o EscapedAll(Tail(str))

\* C26: the result of escapeHtml has no '<', no '>' and no '"', every '&'
\* of it begins one of the four entities, and the entities written for
\* '<', '>' and '"' are not escaped again: the result is the argument with
\* each character replaced once
C26_EscapeCorrectness ==
    htmlCall.done =>
        LET out == htmlCall.result
        IN  /\ \A i \in DOMAIN out : out[i] \notin {"<", ">", "\""}
            /\ \A i \in DOMAIN out :
                   out[i] = "&" =>
                       \E e \in Entities :
                           /\ i + Len(e) - 1 <= Len(out)
                           /\ SubSeq(out, i, i + Len(e) - 1) = e
            /\ out = EscapedAll(htmlCall.html)

\* the string of the four characters, escaped
C26_Witness ==
    /\ htmlCall.done
    /\ htmlCall.html = <<"&", "<", ">", "\"">>
    /\ htmlCall.result
       = <<"&", "a", "m", "p", ";", "&", "l", "t", ";", "&", "g", "t", ";",
           "&", "q", "u", "o", "t", ";">>


\* the nodes with every Comment taken out (strip) or turned into the plain
\* run of its markup, in the bodies as well
RECURSIVE Decomment(_, _)
Decomment(nodes, strip) ==
    IF nodes = <<>> THEN <<>>
    ELSE (IF Head(nodes).type # "comment"
          THEN <<[Head(nodes) EXCEPT !.nodes = Decomment(@, strip)]>>
          ELSE IF strip THEN <<>>
          ELSE <<Str("<!--" \o Head(nodes).text \o "-->")>>)
         \o Decomment(Tail(nodes), strip)

\* C27: without stripComments every Comment is written as '<!--' + content
\* + '-->' where it stands; with stripComments a Comment writes nothing,
\* and the other nodes are written as they are, in the same order
C27_Comments ==
    fs = FsComments =>
        \A i \in DOMAIN renders :
            /\ renders[i].err = ""
            /\ renders[i].out =
                   RefNodes(Decomment(fs.files[fs.root].content.nodes,
                                      stripComments),
                            1, [env |-> renders[i].data @@ Globals,
                                out |-> <<>>], fs.root).out

\* the comments written around a loop of two iterations and in the arm of
\* an if that fires
C27_WitnessKept ==
    /\ fs = FsComments
    /\ ~stripComments
    /\ Len(renders) = 1
    /\ renders[1].out =
           <<Piece("<!--c-->", FALSE), Piece("a", FALSE),
             Piece("<!--d-->", FALSE), Piece("undefined", TRUE),
             Piece("<!--e-->", FALSE), Piece("1", TRUE),
             Piece("<!--e-->", FALSE), Piece("2", TRUE),
             Piece("<!---->", FALSE), Piece("<!--f-->", FALSE),
             Piece("z", FALSE)>>

\* the same render with the comments stripped
C27_Witness ==
    /\ fs = FsComments
    /\ stripComments
    /\ Len(renders) = 1
    /\ renders[1].out =
           <<Piece("a", FALSE), Piece("undefined", TRUE), Piece("1", TRUE),
             Piece("2", TRUE), Piece("z", FALSE)>>


\* the top-level scope of a render: the object extend({}, globals, locals)
\* made, as the render left it
TopScope(render) == render.heap[3].props

\* the names the template assigned at the top level during the render
AssignedAtTop(render) ==
    {render.log[i].name : i \in {j \in DOMAIN render.log :
                                    /\ render.log[j].ev = "var"
                                    /\ render.log[j].scope = 3}}

\* C28: the top-level scope of a render has every built-in global and
\* every key of the data; a key of both has the value of the data, which is
\* what an expression reads
C28_UserKeysWin ==
    \A i \in DOMAIN renders :
        LET r == renders[i]
        IN  /\ DOMAIN Globals \cup DOMAIN r.data \subseteq DOMAIN TopScope(r)
            /\ \A k \in DOMAIN r.data \ AssignedAtTop(r) :
                   TopScope(r)[k] = r.data[k]
            /\ \A k \in DOMAIN Globals \ (DOMAIN r.data \cup AssignedAtTop(r)) :
                   TopScope(r)[k] = Globals[k]
            /\ fs = FsVars =>
                   r.out[1] = [val |-> IF "Math" \in DOMAIN r.data
                                       THEN r.data["Math"]
                                       ELSE Globals["Math"],
                               esc |-> FALSE]

\* a render whose data has a key Math, and one whose data has not: the
\* first expression of the template reads the string, then the built-in
C28_Witness ==
    /\ fs = FsVars
    /\ Len(renders) = 2
    /\ "Math" \in DOMAIN renders[1].data
    /\ renders[1].out[1] = Piece("u", FALSE)
    /\ "JSON" \in DOMAIN TopScope(renders[1])
    /\ "Math" \notin DOMAIN renders[2].data
    /\ renders[2].out[1] = [val |-> Globals["Math"], esc |-> FALSE]


\* C29: a Job is single-shot: compile() called a second time on the same
\* Job is an error, thrown or as the rejection of the promise it returns
C29_JobSingleShot ==
    (fs = FsShared /\ jobCompiles >= 2 /\ Settled)
        => thrown # "" \/ CompileRejected


\* C30: every compile of the compiler works on a Job of its own, whose
\* cache begins empty: every node list in the cache of the current Job was
\* parsed from a load that Job made, and a compile of the root invokes the
\* loader for the root, the compiles before it notwithstanding
C30_CachePerJob ==
    compiles >= 1 =>
        /\ \A path \in DOMAIN cachedNodes :
               \E i \in Loads : /\ loads[i].file = path
                                /\ loads[i].state = "resolved"
        /\ thrown = "" =>
               \E i \in Loads : loads[i].file = localPath(<<>>, file)

\* the second compile of a root whose first compile resolved: the root is
\* loaded again and parsed again
C30_Witness ==
    /\ compiles = 2
    /\ results # <<>>
    /\ results[1].state = "fulfilled"
    /\ Settled
    /\ CompileResolved
    /\ localPath(<<>>, file) \in DOMAIN cachedNodes
    /\ \E i \in Loads : /\ loads[i].file = localPath(<<>>, file)
                        /\ loads[i].state = "resolved"


\* what the caller's data gives for v, as an escaped expression writes it
DataPiece(render, name) ==
    [val |-> String(Collection(render, name)), esc |-> TRUE]

\* C31: the Var children of an Include are evaluated in the scope made for
\* the Include, in order, before any code of the included file: the file
\* reads their values, and the nodes after the Include read what they read
\* before it
C31_IncludeVarsFirst ==
    fs = FsIncludeVars =>
        \A i \in DOMAIN renders :
            LET r == renders[i]
                vars3 == {k \in EventsOf(r, "var") : r.log[k].scope = 3}
            IN  /\ r.err = ""
                /\ r.out = <<DataPiece(r, "v"),
                             Piece("i", TRUE), Piece("i", TRUE),
                             Piece("a", TRUE),
                             DataPiece(r, "v"), DataPiece(r, "w")>>
                /\ vars3 = {}
                /\ \A k, l \in EventsOf(r, "var") :
                       r.log[k].scope = r.log[l].scope
                /\ \A k \in EventsOf(r, "var") :
                       \E c \in EventsOf(r, "scope") :
                           /\ c < k
                           /\ r.log[c].scope = r.log[k].scope
                           /\ r.log[c].parent = 3

\* the include rendered with data that has a v of its own
C31_Witness ==
    /\ fs = FsIncludeVars
    /\ Len(renders) = 1
    /\ Collection(renders[1], "v") = StrV("5")
    /\ renders[1].out = <<Piece("5", TRUE), Piece("i", TRUE),
                          Piece("i", TRUE), Piece("a", TRUE),
                          Piece("5", TRUE), Piece("undefined", TRUE)>>


\* the caller's data object of a render, as the render left it
DataObject(render) == render.heap[2].props

\* C32: a Var assigned at the top level is bound to the data object the
\* caller passed: after the render that object has the property, with the
\* value assigned
C32_TopVarsOnData ==
    \A i \in DOMAIN renders :
        \A k \in EventsOf(renders[i], "var") :
            renders[i].log[k].scope = 3
            => /\ renders[i].log[k].name \in DOMAIN DataObject(renders[i])
               /\ DataObject(renders[i])[renders[i].log[k].name]
                  = TopScope(renders[i])[renders[i].log[k].name]


\* C33: within a job an entry of the AST cache is added only for a path
\* whose load resolved with a text that parses; an entry is never removed,
\* and the node list of an entry is the list the parser gave for the text
\* and stays so: no step of the job that follows the store modifies it
C33_CacheInvariant ==
    [][compiles' = compiles =>
         /\ \A path \in DOMAIN cachedNodes : path \in DOMAIN cachedNodes'
         /\ \A path \in DOMAIN cachedNodes' \ DOMAIN cachedNodes :
               /\ \E i \in Loads : /\ loads[i].file = path
                                   /\ loads[i].state = "resolved"
               /\ LoaderResponse(path).content.valid
         /\ \A path \in DOMAIN cachedNodes' :
               asts'[cachedNodes'[path]]
               = LoaderResponse(path).content.nodes]_vars


\* templates that include themselves
Cyclic == fs \in {FsCycle(TRUE), FsCycle(FALSE)}

\* with a cycle the job is never at rest and the promise never settled,
\* however many contexts are followed; without one the bound is not met
CycleNeverAtRest ==
    IF Cyclic
    THEN compileP # 0 =>
            /\ promises[compileP].state = "pending"
            /\ \/ queue # <<>>
               \/ \E i \in Loads : loads[i].state = "pending"
    ELSE Len(ctxs) < MaxContexts

BlockUnderDefBody ==
    \E q \in Promises :
        /\ promises[q].cont.kind = "block"
        /\ \/ InDefBody(promises[q].cont.ast, promises[q].cont.addr)
           \/ FromDefBody(promises[q].cont.ctx)

\* C35: a Block of the body of a Def, or of a file included from the body,
\* takes the same definition however the storing of the sibling Defs and the
\* nested load are ordered: two compiles of such a template that resolve
\* give the same code
C35_BlockUnderDefStable ==
    \A k \in 1..Len(results) :
        (Settled /\ CompileResolved /\ BlockUnderDefBody
            /\ results[k].state = "fulfilled")
        => Outcome.code = results[k].code

\* the loader has been called for the path
Loaded(path) == \E i \in Loads : loads[i].file = path

\* C36: the default body of a Block that a definition of mode def replaces
\* is composed all the same: the files its include and its inline name are
\* loaded, a load or a parse that fails among them rejects the compile with
\* that error, and when they succeed the code holds the definition alone
C36_DefaultBodyComposed ==
    (fs \in DefaultScenarios /\ Settled /\ compileP # 0)
    => /\ Loaded(pA) /\ Loaded(pT)
       /\ IF fs.files[pA] = Fails
          THEN CompileRejected /\ promises[compileP].value.err = LoadError
          ELSE IF ~fs.files[pA].content.valid
          THEN CompileRejected /\ promises[compileP].value.err = SyntaxError
          ELSE /\ CompileResolved
               /\ \E i \in 1..Len(Outcome.code) :
                     Outcome.code[i].t = "literal"
               /\ \A i \in 1..Len(Outcome.code) :
                     Outcome.code[i].t = "literal"
                     => Outcome.code[i].v = <<"1">>

\* the replaced default body's include failed and the compile is rejected
C36_Witness ==
    /\ fs = FsDefault(Fails)
    /\ Settled
    /\ CompileRejected
    /\ Loaded(pA)
    /\ \E q \in Promises :
          /\ promises[q].cont.kind = "block"
          /\ promises[q].cont.def.found
          /\ promises[q].cont.def.mode = "def"
          /\ promises[q].state = "rejected"

\* the positions of the code that hold an index of the expression list
IndexTokens(code) == {i \in 1..Len(code) : code[i].t = "$$[](locals)"}

\* the index is within the list and its entry is the expression text
Denotes(index, text) ==
    /\ index + 1 \in 1..Len(expressions)
    /\ expressions[index + 1] = text

\* the code of an Expr or Var node holds one index, that of the node's text
ExprAndVarIndices ==
    \A q \in Promises :
        promises[q].cont.kind = "join"
        => LET c == promises[q].cont
               nodes == ChildrenAt(asts[c.ast], c.addr)
               elems == alls[promises[promises[q].src].cont.all].elems
           IN  \A i \in 1..Len(nodes) :
                   nodes[i].type \in {"expr", "var"}
                   => /\ Cardinality(IndexTokens(Final(elems[i]).code)) = 1
                      /\ \A k \in IndexTokens(Final(elems[i]).code) :
                            Denotes(Final(elems[i]).code[k].n, nodes[i].text)

\* the index an Each holds is that of its own expression, and is the one in
\* the code it comes to (after the opening of the scope and of the call)
EachIndices ==
    \A q \in Promises :
        promises[q].cont.kind = "each"
        => /\ Denotes(promises[q].cont.idx,
                      NodeAt(asts[promises[q].cont.ast],
                             promises[q].cont.addr).text)
           /\ promises[q].state = "fulfilled"
              => /\ promises[q].value.code[3].t = "$$[](locals)"
                 /\ promises[q].value.code[3].n = promises[q].cont.idx

\* the index the i-th When of an If holds is that of its own expression, and
\* is the one in the condition of the arm it comes to
WhenIndices ==
    \A q \in Promises :
        promises[q].cont.kind = "ifs"
        => LET c == promises[q].cont
               elems == alls[promises[promises[q].src].cont.all].elems
           IN  \A i \in 1..Len(elems) :
                   LET w == promises[elems[i].p]
                   IN  /\ w.cont.kind = "when"
                       /\ Denotes(w.cont.idx,
                                  NodeAt(asts[c.ast], c.addr \o <<i>>).text)
                       /\ w.state = "fulfilled"
                          => /\ w.value.code[2].t = "$$[](locals)"
                             /\ w.value.code[2].n = w.cont.idx

\* the code a compile resolved with holds indices of the list only
IndicesWithinList ==
    CompileResolved
    => \A k \in IndexTokens(promises[compileP].value.code) :
          promises[compileP].value.code[k].n + 1 \in 1..Len(expressions)

\* C37: the expression list of a job only grows; the index in the code of
\* every Expr, Var, When and Each is that of the expression of the same
\* node, however the loads and the nodes interleave; the code a compile
\* resolves with holds no index outside the list
C37_ExpressionTable ==
    /\ [](ExprAndVarIndices /\ EachIndices /\ WhenIndices
            /\ IndicesWithinList)
    /\ [][compiles' = compiles
            => /\ Len(expressions') >= Len(expressions)
               /\ SubSeq(expressions', 1, Len(expressions)) = expressions]_vars

\* a compile has resolved in which the nested file was processed before the
\* file named first, so that the list is not in textual order
C37_Witness ==
    /\ fs = FsShared
    /\ Settled
    /\ CompileResolved
    /\ expressions[1] = "y"
    /\ IndexTokens(promises[compileP].value.code) # {}
    /\ \E k \in IndexTokens(promises[compileP].value.code) :
          /\ promises[compileP].value.code[k].n > 0
          /\ Denotes(promises[compileP].value.code[k].n, "x")

\* the loader throws for a path the compile reaches
LoaderThrows == fs \in {FsThrow, FsThrowRoot}

\* C38: a loader that throws, for the root or for an included path, makes
\* compile return a promise that rejects with the error thrown: compile
\* itself does not throw
C38_ThrowBecomesRejection ==
    (LoaderThrows /\ compiles >= 1 /\ Settled)
    => /\ thrown = ""
       /\ CompileRejected
       /\ promises[compileP].value.err = LoaderThrew

\* the throw for an included path alone: it is made in a then callback and
\* rejects the promise compile returned
IncludedThrowRejects ==
    (fs = FsThrow /\ compiles >= 1 /\ Settled)
    => /\ thrown = ""
       /\ CompileRejected
       /\ promises[compileP].value.err = LoaderThrew

====
